---- MODULE Spec2Model ----
(***************************************************************************)
(* Event / traffic collection pipeline (whatspoppingABQ).                  *)
(*                                                                         *)
(* The module models, from the Python sources:                             *)
(*   - database/db_utils.py            the event store (insert_events)     *)
(*   - collectors/baseline_schedule.py the baseline scheduler and run      *)
(*   - collectors/tomtom_event_traffic_collector.py                        *)
(*                                     the event scheduler and run         *)
(*   - analysis/event_traffic_correlation.py  the correlation engine       *)
(*                                                                         *)
(* Python None / SQL NULL is the empty tuple None; a non-null number that  *)
(* may be None is a rational <<numerator, denominator>>.                   *)
(***************************************************************************)
EXTENDS Integers, Sequences, FiniteSets, Bags, TLC

VARIABLES
    events,          \* table events: bag of rows
    insert_ret,      \* what the last insert_events call returned
    supplied,        \* history: key -> categories given by the last committed call holding the key
    overwritten,     \* history: the last committed call changed the fields of a stored row
    clock,           \* datetime.now() as read by the baseline scheduler: [day, hour, minute]
    baseline_check,  \* what should_collect_baseline_now returned for clock
    now,             \* datetime.now() as read by the event scheduler, in ticks
    event,           \* the event the event scheduler looks at
    decision,        \* what should_collect_now_tomtom returned for event at now
    TOMTOM_API_KEY,  \* whether the vendor key is configured
    requests,        \* number of HTTP requests sent to the vendor
    traffic_measurements,  \* table traffic_measurements: bag of rows
    venue_locations, \* table venue_locations: venue ids in venue_id order
    outcomes,        \* what happened at each sample point of the item handled last
    baseline,        \* locals of collect_baseline_for_group and its result
    event_rows,      \* events joined with venue_locations, as the event run reads them
    run,             \* locals of run_tomtom_event_collection and its result
    impact_event,    \* the event dict, with its traffic_measurements, handed to the analysis
    analysis,        \* what analyze_event_impact returned for impact_event
    analyze_all,     \* locals of analyze_all_events and its result
    plan_event,      \* the event dict handed to get_collection_plan
    plan,            \* what get_collection_plan returned for plan_event
    events_list,     \* the list of event dicts handed to one insert_events call
    store_op,        \* the db_utils operation in progress: its position, connection, exception
    connections,     \* the store connections that are open
    response,        \* what the vendor answers to the next HTTP request
    measurement,     \* what the vendor client returned for response
    analyses,        \* the list of analyses handed to get_impact_summary
    impact_summary,  \* what get_impact_summary returned for analyses
    wall_clock,      \* datetime.now() as the plan-driven scheduler reads it, in minutes of the day
    upcoming,        \* the event of today the plan-driven scheduler may collect for
    windows_collected,  \* history: <<window, minutes until the event>> of each collection
    backfill,        \* the runs of back_fill_event_ids.py so far and what the last one did
    points_collected,  \* history: bag of <<event_id, collection point>> the periodic runs collected
    baseline_task    \* what collect_baseline_for_group will do, and what the flow task returned

storeVars == <<events, insert_ret, supplied, overwritten>>

baseSchedVars == <<clock, baseline_check>>

schedVars == <<now, event, decision>>

collectVars == <<TOMTOM_API_KEY, requests, traffic_measurements, outcomes>>

baselineVars == <<venue_locations, baseline>>

eventRunVars == <<event_rows, run>>

impactVars == <<impact_event, analysis>>

reportVars == <<analyze_all>>

planVars == <<plan_event, plan>>

callVars == <<events_list>>

connVars == <<store_op, connections>>

vendorVars == <<response, measurement>>

summaryVars == <<analyses, impact_summary>>

ruleVars == <<wall_clock, upcoming, windows_collected>>

backfillVars == <<backfill>>

periodicVars == <<points_collected>>

taskVars == <<baseline_task>>

toolsVars == <<summaryVars, ruleVars, backfillVars, periodicVars, taskVars>>

servicesVars == <<reportVars, planVars, callVars, connVars, vendorVars, toolsVars>>

vars == <<events, insert_ret, supplied, overwritten, clock, baseline_check,
          now, event, decision, TOMTOM_API_KEY, requests, traffic_measurements,
          venue_locations, outcomes, baseline, event_rows, run, impact_event, analysis,
          analyze_all, plan_event, plan, events_list, store_op, connections, response,
          measurement,
          toolsVars>>

None == <<>>

Some(x) == <<x>>

\* A call that raised instead of returning (never equal to Some(x) or None).
Raised == <<"raise", "Exception">>

(***************************************************************************)
(* Generic helpers                                                         *)
(***************************************************************************)
Abs(x) == IF x < 0 THEN -x ELSE x

Min(a, b) == IF a <= b THEN a ELSE b

SeqsUpTo(S, n) == UNION {[1..k -> S] : k \in 0..n}

\* The positions of keys in ascending key order, equal keys in their original order:
\* position n goes behind the earlier positions whose key is not greater.
RECURSIVE SortOrder(_)
SortOrder(keys) ==
    IF keys = <<>> THEN <<>>
    ELSE LET n == Len(keys)
             prev == SortOrder(SubSeq(keys, 1, n - 1))
             k == Cardinality({j \in DOMAIN prev : keys[prev[j]] <= keys[n]})
         IN  SubSeq(prev, 1, k) \o <<n>> \o SubSeq(prev, k + 1, Len(prev))

\* s rearranged: position j of the result holds s[order[j]]
Permute(s, order) == [j \in DOMAIN s |-> s[order[j]]]

Range(s) == {s[i] : i \in DOMAIN s}

(***************************************************************************)
(* Event store: database/db_utils.py                                       *)
(***************************************************************************)
MaxBatch == 2

\* The logical keys used by the inputs: they differ pairwise in one component each.
EventKeys == { <<"fair", 1, "expo">>, <<"gala", 1, "expo">>,
               <<"fair", 2, "expo">>, <<"fair", 1, "park">> }

Categories == {"Sports", "Arts"}

\* An event dict as the scraper hands it over (non-key columns: category stands for all of
\* them). The events of day 1 at "expo" come in both categories, the others in one.
EventDicts ==
    { d \in [event_name : {"fair", "gala"}, event_start_date : {1, 2},
             venue_name : {"expo", "park"}, category : Categories] :
        /\ <<d.event_name, d.event_start_date, d.venue_name>> \in EventKeys
        /\ d.category = "Arts" => (d.event_start_date = 1 /\ d.venue_name = "expo") }

EventKey(e) == <<e.event_name, e.event_start_date, e.venue_name>>

\* for e in events: if key not in seen: seen.add(key); unique_events.append(e)
RECURSIVE Dedup(_, _)
Dedup(evs, seen) ==
    IF evs = <<>> THEN <<>>
    ELSE IF EventKey(Head(evs)) \in seen
         THEN Dedup(Tail(evs), seen)
         ELSE <<Head(evs)>> \o Dedup(Tail(evs), seen \cup {EventKey(Head(evs))})

\* The batch written as it comes, duplicates included.
all_events(evs) == evs

unique_events(evs) == Dedup(evs, {})

ConflictRows(table, e) == {r \in BagToSet(table) : EventKey(r) = EventKey(e)}

\* INSERT of one row with no conflict clause (the row is always added).
PlainInsertRow(table, e) == table (+) SetToBag({e})

\* INSERT ... ON CONFLICT (event_name, event_start_date, venue_name) DO UPDATE SET <non-key> = EXCLUDED.<non-key>
UpsertRow(table, e) ==
    IF ConflictRows(table, e) = {}
    THEN table (+) SetToBag({e})
    ELSE [r \in (BagToSet(table) \ ConflictRows(table, e)) \cup {e} |->
            IF r = e THEN 1 ELSE table[r]]

\* execute_values(cur, query, values): one multi-row statement over unique_events
RECURSIVE ExecuteValues(_, _)
ExecuteValues(table, evs) ==
    IF evs = <<>> THEN table
    ELSE ExecuteValues(UpsertRow(table, Head(evs)), Tail(evs))

SuppliedBy(evs, k) == {evs[i].category : i \in {j \in DOMAIN evs : EventKey(evs[j]) = k}}

KeysOf(evs) == {EventKey(evs[i]) : i \in DOMAIN evs}

\* insert_events(events), committed: returns len(unique_events); the empty batch returns 0 before connecting
insert_events(batch) ==
    /\ events' = IF batch = <<>> THEN events ELSE ExecuteValues(events, unique_events(batch))
    /\ insert_ret' = <<Len(unique_events(batch))>>
    /\ supplied' = [k \in EventKeys |->
                      IF k \in KeysOf(batch) THEN SuppliedBy(batch, k) ELSE supplied[k]]
    /\ overwritten' = \E r \in BagToSet(events) :
                          /\ EventKey(r) \in KeysOf(batch)
                          /\ r.category \notin SuppliedBy(batch, EventKey(r))

\* insert_events(events) of a non-empty batch when the statement or the connection fails:
\* rollback, re-raise
insert_events_raises ==
    /\ events' = events
    /\ insert_ret' = Raised
    /\ UNCHANGED <<supplied, overwritten>>

InsertEvents == \E batch \in SeqsUpTo(EventDicts, MaxBatch) : insert_events(batch)

StoreInit ==
    /\ events = EmptyBag
    /\ insert_ret = None
    /\ supplied = [k \in EventKeys |-> {}]
    /\ overwritten = FALSE

(***************************************************************************)
(* Baseline scheduler: collectors/baseline_schedule.py                     *)
(***************************************************************************)
\* A time-slot string is the sequence of its characters.
BASELINE_TIME_SLOTS ==
    << <<"0","7",":","0","0">>, <<"1","2",":","0","0">>, <<"1","7",":","0","0">>,
       <<"1","9",":","0","0">>, <<"2","1",":","0","0">>, <<"2","3",":","0","0">> >>

DigitVal(c) ==
    CASE c = "0" -> 0 [] c = "1" -> 1 [] c = "2" -> 2 [] c = "3" -> 3 [] c = "4" -> 4
      [] c = "5" -> 5 [] c = "6" -> 6 [] c = "7" -> 7 [] c = "8" -> 8 [] c = "9" -> 9

\* int(text)
RECURSIVE ParseInt(_)
ParseInt(digits) ==
    IF digits = <<>> THEN 0
    ELSE ParseInt(SubSeq(digits, 1, Len(digits) - 1)) * 10 + DigitVal(digits[Len(digits)])

\* time_slot.split(':')
SplitColon(text) ==
    LET at == CHOOSE i \in DOMAIN text : text[i] = ":"
    IN  <<SubSeq(text, 1, at - 1), SubSeq(text, at + 1, Len(text))>>

slot_hour(time_slot) == ParseInt(SplitColon(time_slot)[1])

slot_minute(time_slot) == ParseInt(SplitColon(time_slot)[2])

\* The week ranges with the last one cut at day 28.
get_current_baseline_group_cut28(day_of_month) ==
    IF 1 <= day_of_month /\ day_of_month <= 7 THEN Some(1)
    ELSE IF 8 <= day_of_month /\ day_of_month <= 14 THEN Some(2)
    ELSE IF 15 <= day_of_month /\ day_of_month <= 21 THEN Some(3)
    ELSE IF 22 <= day_of_month /\ day_of_month <= 28 THEN Some(4)
    ELSE None

get_current_baseline_group(day_of_month) ==
    IF 1 <= day_of_month /\ day_of_month <= 7 THEN Some(1)
    ELSE IF 8 <= day_of_month /\ day_of_month <= 14 THEN Some(2)
    ELSE IF 15 <= day_of_month /\ day_of_month <= 21 THEN Some(3)
    ELSE IF 22 <= day_of_month /\ day_of_month <= 31 THEN Some(4)
    ELSE None

\* The same test with the tolerance taken exclusive.
SlotMatchesStrict(t, n) ==
    Abs((t.hour * 60 + t.minute)
        - (slot_hour(BASELINE_TIME_SLOTS[n]) * 60 + slot_minute(BASELINE_TIME_SLOTS[n]))) < 15

\* diff_minutes <= 15 for slot number n
SlotMatches(t, n) ==
    Abs((t.hour * 60 + t.minute)
        - (slot_hour(BASELINE_TIME_SLOTS[n]) * 60 + slot_minute(BASELINE_TIME_SLOTS[n]))) <= 15

\* The first slot of the list, from position n on, that matches (0: none)
RECURSIVE FirstSlot(_, _)
FirstSlot(t, n) ==
    IF n > Len(BASELINE_TIME_SLOTS) THEN 0
    ELSE IF SlotMatches(t, n) THEN n
    ELSE FirstSlot(t, n + 1)

should_collect_baseline_now(t) ==
    LET group == get_current_baseline_group(t.day)
        n == FirstSlot(t, 1)
    IN  IF group = None
        THEN [collect |-> FALSE, group |-> None, time_slot |-> None]
        ELSE IF n # 0
        THEN [collect |-> TRUE, group |-> group, time_slot |-> Some(BASELINE_TIME_SLOTS[n])]
        ELSE [collect |-> FALSE, group |-> group, time_slot |-> None]

\* One scheduler tick: decide for the clock that was read.
CheckBaseline ==
    /\ baseline_check = None
    /\ baseline_check' = should_collect_baseline_now(clock)
    /\ UNCHANGED clock

Clocks == [day : 1..31, hour : 0..23, minute : 0..59]

BaseSchedIdle ==
    /\ clock = [day |-> 1, hour |-> 0, minute |-> 0]
    /\ baseline_check = None

BaseSchedInit ==
    /\ clock \in Clocks
    /\ baseline_check = None

(***************************************************************************)
(* Event scheduler: collectors/tomtom_event_traffic_collector.py           *)
(***************************************************************************)
\* Resolution of the wall clock: ticks per minute.
TicksPerMinute == 2

TicksPerDay == 24 * 60 * TicksPerMinute

\* datetime.combine(event['event_start_date'], event['event_start_time'])
event_datetime(e) == e.event_start_date * TicksPerDay + e.event_start_time[1]

collection_points == <<-120, -90, -60, -30, 0, 30, 60, 90, 120>>

\* The test with the tolerance halved.
AtPointHalf(diff_ticks, target_minutes) ==
    2 * Abs(diff_ticks - target_minutes * TicksPerMinute) <= 15 * TicksPerMinute

\* abs(time_diff_minutes - target_minutes) <= 15, with time_diff_minutes = diff_ticks / TicksPerMinute
AtPoint(diff_ticks, target_minutes) ==
    Abs(diff_ticks - target_minutes * TicksPerMinute) <= 15 * TicksPerMinute

\* for target_minutes in collection_points: the first position that matches (0: none)
RECURSIVE FirstPoint(_, _)
FirstPoint(diff_ticks, n) ==
    IF n > Len(collection_points) THEN 0
    ELSE IF AtPoint(diff_ticks, collection_points[n]) THEN n
    ELSE FirstPoint(diff_ticks, n + 1)

window_of(target_minutes) ==
    IF target_minutes < -15 THEN "before"
    ELSE IF target_minutes > 15 THEN "after"
    ELSE "during"

should_collect_now_tomtom(e, t) ==
    LET time_diff == event_datetime(e) - t
        n == FirstPoint(time_diff, 1)
    IN  IF n # 0
        THEN [collect |-> TRUE,
              window |-> Some(window_of(collection_points[n])),
              collection_point |-> Some(collection_points[n]),
              event_time |-> Some(event_datetime(e))]
        ELSE [collect |-> FALSE, window |-> None, collection_point |-> None,
              event_time |-> None]

\* The scheduler looks at one event.
Decide ==
    /\ decision = None
    /\ decision' = should_collect_now_tomtom(event, now)
    /\ UNCHANGED <<now, event>>

\* Wall clocks: shortly after midnight and at noon of day 1.
SchedNows == {TicksPerDay + 40 * TicksPerMinute, TicksPerDay + 12 * 60 * TicksPerMinute}

SchedEvents ==
    [event_start_date : {0, 1}, event_start_time : {Some(t) : t \in 0..(TicksPerDay - 1)}]

SchedIdle ==
    /\ now = 0
    /\ event = None
    /\ decision = None

SchedInit ==
    /\ now \in SchedNows
    /\ event \in SchedEvents
    /\ decision = None

(***************************************************************************)
(* Sample points, vendor client and measurement insert                     *)
(***************************************************************************)
MaxVenues == 3

MaxCeiling == 5

\* generate_points_around_location(lat, lon, radius_miles, num_points=4): one point per direction
generate_points_around_location == <<"North", "South", "East", "West">>

\* Per sample point: the vendor client returned None ("none"), it returned a measurement
\* and insert_traffic_measurement raised ("insert_error"), or the measurement was stored.
PointOutcomes == {"none", "insert_error", "stored"}

\* measure_traffic_tomtom returns None before any request when the key is missing
PossibleOutcomes(points) ==
    IF TOMTOM_API_KEY THEN [DOMAIN points -> PointOutcomes]
    ELSE [DOMAIN points -> {"none"}]

\* requests.get is called once per sample point when the key is configured
RequestsFor(points) == IF TOMTOM_API_KEY THEN Len(points) ELSE 0

\* The measurements that reach the table when the first insert error ends the venue.
StoredUntilError(out) ==
    {n \in DOMAIN out : out[n] = "stored" /\ \A m \in 1..n : out[m] # "insert_error"}

\* for measurement in measurements: try: insert_traffic_measurement(...) except Exception: log
Stored(out) == {n \in DOMAIN out : out[n] = "stored"}

\* The insert made idempotent: a measurement equal to a stored one is not added again.
InsertRowsOnce(table, venue_id, event_id, is_baseline, points, ns) ==
    table (+) SetToBag({[venue_id |-> venue_id, event_id |-> event_id,
                         is_baseline |-> is_baseline, direction |-> points[n]] : n \in ns}
                       \ BagToSet(table))

\* insert_traffic_measurement: INSERT INTO traffic_measurements, one new row per call
InsertRows(table, venue_id, event_id, is_baseline, points, ns) ==
    table (+) SetToBag({[venue_id |-> venue_id, event_id |-> event_id,
                         is_baseline |-> is_baseline, direction |-> points[n]] : n \in ns})

CollectIdle ==
    /\ TOMTOM_API_KEY = TRUE
    /\ requests = 0
    /\ traffic_measurements = EmptyBag
    /\ outcomes = None

CollectInit ==
    /\ TOMTOM_API_KEY \in BOOLEAN
    /\ requests = 0
    /\ traffic_measurements = EmptyBag
    /\ outcomes = None

(***************************************************************************)
(* Baseline run: collectors/baseline_schedule.py                           *)
(***************************************************************************)
\* venues[a:b] of a Python list (0-based, end exclusive)
Slice(s, a, b) == SubSeq(s, Min(a, Len(s)) + 1, Min(b, Len(s)))

split_venues_into_groups(venues) ==
    LET total == Len(venues)
        group_size == total \div 4
    IN  << Slice(venues, 0, group_size),
           Slice(venues, group_size, group_size * 2),
           Slice(venues, group_size * 2, group_size * 3),
           Slice(venues, group_size * 3, total) >>

\* if api_calls_made >= max_calls: break
CeilingHit(api_calls_made, max_calls) == api_calls_made >= max_calls

\* collect_baseline_for_group up to the loop: read the venues, pick the group, zero the counters
BaselineStart ==
    /\ baseline.pc = "start"
    /\ baseline' = [baseline EXCEPT
          !.pc = "loop",
          !.venues = split_venues_into_groups(venue_locations)[baseline.group_number],
          !.i = 1]
    /\ UNCHANGED <<venue_locations, collectVars>>

\* One pass of the loop body for venue i: collect at the four points, insert what came back
BaselineVenue ==
    /\ baseline.pc = "loop"
    /\ baseline.i <= Len(baseline.venues)
    /\ ~CeilingHit(baseline.api_calls_made, baseline.max_calls)
    /\ \E out \in PossibleOutcomes(generate_points_around_location) :
          /\ outcomes' = out
          /\ requests' = requests + RequestsFor(generate_points_around_location)
          /\ traffic_measurements' =
                InsertRows(traffic_measurements, baseline.venues[baseline.i], None, TRUE,
                           generate_points_around_location, Stored(out))
          /\ baseline' = [baseline EXCEPT
                !.i = @ + 1,
                !.total_measurements = @ + Cardinality(Stored(out)),
                !.api_calls_made = @ + Cardinality(Stored(out)),
                !.venues_processed = @ + 1]
    /\ UNCHANGED <<venue_locations, TOMTOM_API_KEY>>

BaselineStats ==
    [group |-> baseline.group_number,
     total_venues |-> Len(baseline.venues),
     venues_processed |-> baseline.venues_processed,
     measurements_collected |-> baseline.total_measurements,
     api_calls_made |-> baseline.api_calls_made]

\* The ceiling is reached with venues left: break, return the counts
BaselineBreak ==
    /\ baseline.pc = "loop"
    /\ baseline.i <= Len(baseline.venues)
    /\ CeilingHit(baseline.api_calls_made, baseline.max_calls)
    /\ baseline' = [baseline EXCEPT !.pc = "done", !.result = Some(BaselineStats)]
    /\ UNCHANGED <<venue_locations, collectVars>>

\* The loop ran out of venues: return the counts
BaselineReturn ==
    /\ baseline.pc = "loop"
    /\ baseline.i > Len(baseline.venues)
    /\ baseline' = [baseline EXCEPT !.pc = "done", !.result = Some(BaselineStats)]
    /\ UNCHANGED <<venue_locations, collectVars>>

BaselineLocals(pc, group_number, max_calls) ==
    [pc |-> pc, group_number |-> group_number, max_calls |-> max_calls, venues |-> <<>>,
     i |-> 0, total_measurements |-> 0, api_calls_made |-> 0, venues_processed |-> 0,
     result |-> None]

BaselineIdle ==
    /\ venue_locations = <<>>
    /\ baseline = BaselineLocals("idle", 1, 0)

BaselineInit ==
    /\ venue_locations \in {[n \in 1..k |-> n] : k \in 0..MaxVenues}
    /\ \E g \in 1..4, m \in 0..MaxCeiling : baseline = BaselineLocals("start", g, m)

(***************************************************************************)
(* Event run: collectors/tomtom_event_traffic_collector.py                 *)
(***************************************************************************)
MaxEvents == 3

\* WHERE event_start_date = CURRENT_DATE AND event_start_time IS NOT NULL
\*   AND event_start_time BETWEEN CURRENT_TIME - 2 hours AND CURRENT_TIME + 2 hours 30 minutes
\* (time-of-day arithmetic wraps at midnight)
InQueryWindow(r, t) ==
    LET lo == ((t % TicksPerDay) - 120 * TicksPerMinute) % TicksPerDay
        hi == ((t % TicksPerDay) + 150 * TicksPerMinute) % TicksPerDay
    IN  /\ r.event_start_date = t \div TicksPerDay
        /\ r.event_start_time # None
        /\ lo <= r.event_start_time[1]
        /\ r.event_start_time[1] <= hi

\* get_events_needing_collection(window_minutes=30): ... ORDER BY e.event_start_time
get_events_needing_collection(rows, t) ==
    LET found == SelectSeq(rows, LAMBDA r : InQueryWindow(r, t))
    IN  Permute(found, SortOrder([j \in DOMAIN found |-> found[j].event_start_time[1]]))

\* [p for p in all_points if p['direction'] in ['North', 'South']][:num_directions]
selected_points(num_directions) ==
    LET ns == SelectSeq(generate_points_around_location,
                        LAMBDA d : d \in {"North", "South"})
    IN  SubSeq(ns, 1, Min(num_directions, Len(ns)))

\* The measurements that reach the table when the first insert error ends the event.
EventStoredUntilError(out) ==
    {n \in DOMAIN out : out[n] = "stored" /\ \A m \in 1..n : out[m] # "insert_error"}

\* if measurement: try: insert_traffic_measurement(...) except Exception: log
EventStored(out) == {n \in DOMAIN out : out[n] = "stored"}

RunStats(n) ==
    [events_checked |-> n,
     events_collected |-> run.events_collected,
     measurements_collected |-> run.total_measurements,
     api_calls_made |-> run.api_calls_made]

\* run_tomtom_event_collection: the query returns no event, return zero counts
EventRunNoEvents ==
    /\ run.pc = "start"
    /\ get_events_needing_collection(event_rows, now) = <<>>
    /\ run' = [run EXCEPT !.pc = "done", !.result = Some(RunStats(0))]
    /\ UNCHANGED <<event_rows, schedVars, collectVars>>

\* run_tomtom_event_collection up to the loop: query the events, zero the counters
EventRunStart ==
    /\ run.pc = "start"
    /\ get_events_needing_collection(event_rows, now) # <<>>
    /\ run' = [run EXCEPT !.pc = "loop", !.i = 1,
                           !.events = get_events_needing_collection(event_rows, now)]
    /\ UNCHANGED <<event_rows, schedVars, collectVars>>

\* Loop body, event not at a collection point: continue
EventSkip ==
    /\ run.pc = "loop"
    /\ run.i <= Len(run.events)
    /\ ~should_collect_now_tomtom(run.events[run.i], now).collect
    /\ event' = run.events[run.i]
    /\ decision' = should_collect_now_tomtom(run.events[run.i], now)
    /\ run' = [run EXCEPT !.i = @ + 1]
    /\ UNCHANGED <<now, event_rows, collectVars>>

\* Loop body, event due and the ceiling reached: break, return the counts
EventBreak ==
    /\ run.pc = "loop"
    /\ run.i <= Len(run.events)
    /\ should_collect_now_tomtom(run.events[run.i], now).collect
    /\ run.api_calls_made >= run.max_calls
    /\ event' = run.events[run.i]
    /\ decision' = should_collect_now_tomtom(run.events[run.i], now)
    /\ run' = [run EXCEPT !.pc = "done", !.result = Some(RunStats(Len(run.events)))]
    /\ UNCHANGED <<now, event_rows, collectVars>>

\* Loop body, event due: collect_traffic_for_event_tomtom(event, num_directions=2)
EventCollect ==
    /\ run.pc = "loop"
    /\ run.i <= Len(run.events)
    /\ should_collect_now_tomtom(run.events[run.i], now).collect
    /\ ~(run.api_calls_made >= run.max_calls)
    /\ event' = run.events[run.i]
    /\ decision' = should_collect_now_tomtom(run.events[run.i], now)
    /\ \E out \in PossibleOutcomes(selected_points(2)) :
          /\ outcomes' = out
          /\ requests' = requests + RequestsFor(selected_points(2))
          /\ traffic_measurements' =
                InsertRows(traffic_measurements, run.events[run.i].venue_id,
                           Some(run.events[run.i].event_id), FALSE,
                           selected_points(2), EventStored(out))
          /\ run' = [run EXCEPT
                !.i = @ + 1,
                !.total_measurements = @ + Cardinality(EventStored(out)),
                !.api_calls_made = @ + Cardinality(EventStored(out)),
                !.events_collected = @ + 1]
    /\ UNCHANGED <<now, event_rows, TOMTOM_API_KEY>>

\* The loop ran out of events: return the counts
EventRunReturn ==
    /\ run.pc = "loop"
    /\ run.i > Len(run.events)
    /\ run' = [run EXCEPT !.pc = "done", !.result = Some(RunStats(Len(run.events)))]
    /\ UNCHANGED <<event_rows, schedVars, collectVars>>

RunLocals(pc, max_calls) ==
    [pc |-> pc, max_calls |-> max_calls, events |-> <<>>, i |-> 0,
     total_measurements |-> 0, events_collected |-> 0, api_calls_made |-> 0,
     result |-> None, retries |-> 0]

\* @task(retries=3, retry_delay_seconds=60)
TaskRetries == 3

MaxRetries == 1

\* run_tomtom_event_collection(max_calls=50), as the task calls it
TaskMaxCalls == 50

\* The task fails inside the loop: an exception nothing in the run catches (raised by
\* should_collect_now_tomtom or by the point generation), or the worker dies
EventRunFails ==
    /\ run.pc = "loop"
    /\ run.i <= Len(run.events)
    /\ run' = [run EXCEPT !.pc = "failed", !.result = Raised]
    /\ UNCHANGED <<event_rows, schedVars, collectVars>>

\* The orchestrator runs the failed task again, a minute later, from the top
EventRunRetry ==
    /\ run.pc = "failed"
    /\ run.retries < Min(TaskRetries, MaxRetries)
    /\ run' = [RunLocals("start", run.max_calls) EXCEPT !.retries = run.retries + 1]
    /\ now' = now + TicksPerMinute
    /\ UNCHANGED <<event_rows, event, decision, collectVars>>

\* The run starts at noon of day 1, or 40 minutes after its midnight.
RunNows == {TicksPerDay + 12 * 60 * TicksPerMinute, TicksPerDay + 40 * TicksPerMinute}

\* Start times in minutes of day 1: 09:55, 11:00, 12:00, 14:20, 00:50, and no start time.
RunStartTimes ==
    {Some(595 * TicksPerMinute), Some(660 * TicksPerMinute), Some(720 * TicksPerMinute),
     Some(860 * TicksPerMinute), Some(50 * TicksPerMinute), None}

EventRows(k) ==
    {rows \in [1..k -> [event_id : 1..k, venue_id : {1}, event_start_date : {1},
                         event_start_time : RunStartTimes]] :
        \A n \in 1..k : rows[n].event_id = n}

\* The event traffic task starts with up to two events in the store
EventRetryInit ==
    /\ now \in RunNows
    /\ event = None
    /\ decision = None
    /\ event_rows \in UNION {EventRows(k) : k \in 0..2}
    /\ run = RunLocals("start", TaskMaxCalls)

EventRunIdle ==
    /\ event_rows = <<>>
    /\ run = RunLocals("idle", 0)

EventRunInit ==
    /\ now \in RunNows
    /\ event = None
    /\ decision = None
    /\ event_rows \in UNION {EventRows(k) : k \in 0..MaxEvents}
    /\ \E m \in 0..MaxCeiling : run = RunLocals("start", m)

(***************************************************************************)
(* Rational numbers <<numerator, denominator>>, denominator > 0, reduced   *)
(***************************************************************************)
RECURSIVE GCD(_, _)
GCD(a, b) == IF b = 0 THEN a ELSE GCD(b, a % b)

RNorm(n, d) ==
    LET g == GCD(Abs(n), Abs(d))
        sgn == IF d < 0 THEN -1 ELSE 1
    IN  <<sgn * (n \div g), sgn * (d \div g)>>

RInt(n) == <<n, 1>>

RAdd(a, b) == RNorm(a[1] * b[2] + b[1] * a[2], a[2] * b[2])

RSub(a, b) == RNorm(a[1] * b[2] - b[1] * a[2], a[2] * b[2])

RMul(a, b) == RNorm(a[1] * b[1], a[2] * b[2])

\* a / b for b # 0
RDiv(a, b) == RNorm(a[1] * b[2], a[2] * b[1])

RAbs(a) == <<Abs(a[1]), a[2]>>

RGreater(a, b) == a[1] * b[2] > b[1] * a[2]

\* sum(values) of a list
RECURSIVE RSum(_)
RSum(values) == IF values = <<>> THEN RInt(0) ELSE RAdd(Head(values), RSum(Tail(values)))

\* max(values) of a non-empty list
RECURSIVE RMax(_)
RMax(values) ==
    IF Len(values) = 1 THEN values[1]
    ELSE LET rest == RMax(Tail(values))
         IN  IF RGreater(rest, Head(values)) THEN rest ELSE Head(values)

(***************************************************************************)
(* Correlation engine: analysis/event_traffic_correlation.py               *)
(***************************************************************************)
\* sorted(measurements, key=lambda m: m['measurement_time'])
sorted_by_time(measurements) ==
    Permute(measurements,
            SortOrder([j \in DOMAIN measurements |-> measurements[j].measurement_time]))

\* The split point rounded up.
mid_point_ceil(n) == (n + 1) \div 2

\* mid_point = len(measurements) // 2
mid_point(n) == n \div 2

NonNull(values) == SelectSeq(values, LAMBDA v : v # None)

\* The delays with a missing delay counted as zero.
delays_null_as_zero(measurements_list) ==
    [j \in DOMAIN measurements_list |->
        IF measurements_list[j].delay_minutes = None THEN RInt(0)
        ELSE measurements_list[j].delay_minutes]

\* [m['delay_minutes'] for m in measurements_list if m['delay_minutes'] is not None]
delays_of(measurements_list) ==
    NonNull([j \in DOMAIN measurements_list |-> measurements_list[j].delay_minutes])

\* [m['avg_speed_mph'] for m in measurements_list if m['avg_speed_mph'] is not None]
speeds_of(measurements_list) ==
    NonNull([j \in DOMAIN measurements_list |-> measurements_list[j].avg_speed_mph])

calc_stats(measurements_list) ==
    IF measurements_list = <<>> THEN None
    ELSE LET delays == delays_of(measurements_list)
             speeds == speeds_of(measurements_list)
         IN  Some([count |-> Len(measurements_list),
                   avg_delay |-> IF delays # <<>>
                                 THEN RDiv(RSum(delays), RInt(Len(delays))) ELSE None,
                   max_delay |-> IF delays # <<>> THEN RMax(delays) ELSE None,
                   avg_speed |-> IF speeds # <<>>
                                 THEN RDiv(RSum(speeds), RInt(Len(speeds))) ELSE None,
                   traffic_levels |-> [j \in DOMAIN measurements_list |->
                                          measurements_list[j].traffic_level]])

\* The classification with the thresholds taken inclusive.
impact_level_inclusive(delay_increase) ==
    IF delay_increase = None THEN "unknown"
    ELSE IF delay_increase = RInt(0) THEN "no impact"
    ELSE IF ~RGreater(RInt(5), delay_increase) THEN "severe"
    ELSE IF ~RGreater(RInt(2), delay_increase) THEN "high"
    ELSE IF ~RGreater(RInt(1), delay_increase) THEN "moderate"
    ELSE IF RGreater(delay_increase, RInt(0)) THEN "low"
    ELSE "no impact"

\* if delay_increase == 0 ... elif > 5 ... elif > 2 ... elif > 1 ... elif > 0 ... else
impact_level(delay_increase) ==
    IF delay_increase = None THEN "unknown"
    ELSE IF delay_increase = RInt(0) THEN "no impact"
    ELSE IF RGreater(delay_increase, RInt(5)) THEN "severe"
    ELSE IF RGreater(delay_increase, RInt(2)) THEN "high"
    ELSE IF RGreater(delay_increase, RInt(1)) THEN "moderate"
    ELSE IF RGreater(delay_increase, RInt(0)) THEN "low"
    ELSE "no impact"

HasBoth(before_stats, during_stats, field) ==
    /\ before_stats # None
    /\ during_stats # None
    /\ before_stats[1][field] # None
    /\ during_stats[1][field] # None

\* The impact dict; a key that is not set is None.
impact_of(before_stats, during_stats) ==
    LET delay_increase ==
            IF HasBoth(before_stats, during_stats, "avg_delay")
            THEN RSub(during_stats[1].avg_delay, before_stats[1].avg_delay) ELSE None
        delay_increase_pct ==
            IF HasBoth(before_stats, during_stats, "avg_delay")
            THEN RMul(RDiv(RSub(during_stats[1].avg_delay, before_stats[1].avg_delay),
                           RAdd(RAbs(before_stats[1].avg_delay), RInt(1))),
                      RInt(100))
            ELSE None
        speed_decrease ==
            IF HasBoth(before_stats, during_stats, "avg_speed")
            THEN RSub(before_stats[1].avg_speed, during_stats[1].avg_speed) ELSE None
        speed_decrease_pct ==
            IF HasBoth(before_stats, during_stats, "avg_speed")
            THEN RMul(RDiv(RSub(before_stats[1].avg_speed, during_stats[1].avg_speed),
                           before_stats[1].avg_speed),
                      RInt(100))
            ELSE None
    IN  [delay_increase |-> delay_increase,
         delay_increase_pct |-> delay_increase_pct,
         speed_decrease |-> speed_decrease,
         speed_decrease_pct |-> speed_decrease_pct,
         level |-> impact_level(delay_increase)]

\* before_stats['avg_speed'] * 100 divides by zero: ZeroDivisionError
SpeedDivisionByZero(before_stats, during_stats) ==
    /\ HasBoth(before_stats, during_stats, "avg_speed")
    /\ before_stats[1].avg_speed[1] = 0

analyze_event_impact(e) ==
    IF e.traffic_measurements = <<>>
    THEN Some([has_data |-> FALSE, reason |-> "No traffic measurements available"])
    ELSE LET measurements == sorted_by_time(e.traffic_measurements)
             mid == mid_point(Len(measurements))
             before_stats == calc_stats(SubSeq(measurements, 1, mid))
             during_stats == calc_stats(SubSeq(measurements, mid + 1, Len(measurements)))
         IN  IF SpeedDivisionByZero(before_stats, during_stats) THEN Raised
             ELSE Some([has_data |-> TRUE,
                        event_id |-> e.event_id,
                        event_name |-> e.event_name,
                        category |-> e.category,
                        venue_name |-> e.venue_name,
                        before |-> before_stats,
                        during |-> during_stats,
                        impact |-> impact_of(before_stats, during_stats),
                        total_measurements |-> Len(measurements)])

\* The analysis of one event
AnalyzeEvent ==
    /\ analysis = None
    /\ analysis' = analyze_event_impact(impact_event)
    /\ UNCHANGED impact_event

\* Measurement times in minutes from the event start; delays in minutes; speeds in mph.
MeasurementTimes == {-60, -30, 30, 60}

MeasurementDelays == {None, RInt(1), RInt(4)}

MeasurementSpeeds == {None, RInt(0), RInt(30)}

\* A stored row carries the level the vendor client derived from its delay.
LevelOfDelay(delay) ==
    IF delay = None THEN None
    ELSE IF RGreater(RInt(1), RMul(delay, RInt(2))) THEN Some("light")
    ELSE IF RGreater(RInt(2), delay) THEN Some("moderate")
    ELSE IF RGreater(RInt(5), delay) THEN Some("heavy")
    ELSE Some("severe")

Measurements ==
    {[measurement_time |-> t, delay_minutes |-> d, avg_speed_mph |-> v,
      traffic_level |-> LevelOfDelay(d)] :
        t \in MeasurementTimes, d \in MeasurementDelays, v \in MeasurementSpeeds}

\* Lists of measurements taken at distinct times, in any order.
MeasurementLists ==
    UNION {{ms \in [1..k -> Measurements] :
               \A a, b \in 1..k : a # b => ms[a].measurement_time # ms[b].measurement_time} :
           k \in 0..Cardinality(MeasurementTimes)}

ImpactIdle ==
    /\ impact_event = None
    /\ analysis = None

ImpactInit ==
    /\ \E ms \in MeasurementLists :
          impact_event = [event_id |-> 1, event_name |-> "fair", category |-> "Sports",
                          venue_name |-> "expo", traffic_measurements |-> ms]
    /\ analysis = None

\* Delays in hundredths of a minute, around the classification thresholds.
LevelDelaysBefore == {None, RInt(0), RInt(1)}

LevelDelaysDuring ==
    {None} \cup {RNorm(k, 100) : k \in {-100, 0, 50, 100, 101, 200, 201, 500, 501, 600, 700}}

\* An event with at most two measurements: one before and one after its start.
LevelMeasurementLists ==
    {SubSeq(<<[measurement_time |-> -30, delay_minutes |-> b, avg_speed_mph |-> vb,
               traffic_level |-> LevelOfDelay(b)],
              [measurement_time |-> 30, delay_minutes |-> d, avg_speed_mph |-> vd,
               traffic_level |-> LevelOfDelay(d)]>>, 1, k) :
        b \in LevelDelaysBefore, d \in LevelDelaysDuring,
        vb \in {None, RInt(30)}, vd \in {None, RInt(20)}, k \in 0..2}

LevelInit ==
    /\ \E ms \in LevelMeasurementLists :
          impact_event = [event_id |-> 1, event_name |-> "fair", category |-> "Sports",
                          venue_name |-> "expo", traffic_measurements |-> ms]
    /\ analysis = None

(***************************************************************************)
(* Batch analysis: analysis/event_traffic_correlation.py                   *)
(***************************************************************************)
MaxAnalysed == 3

\* One row of traffic_measurements as get_traffic_for_event reads it
MeasurementRow(t, d, v) ==
    [measurement_time |-> t, delay_minutes |-> d, avg_speed_mph |-> v,
     traffic_level |-> LevelOfDelay(d)]

\* The measurements found in an event's window: none (they were deleted after the ids were
\* selected), one, a rise from 1 to 4 minutes, a before speed of 0, no delays and no
\* speeds, and equal delays.
FetchedLists ==
    { <<>>,
      <<MeasurementRow(-30, RInt(1), RInt(30))>>,
      <<MeasurementRow(-30, RInt(1), RInt(30)), MeasurementRow(30, RInt(4), RInt(20))>>,
      <<MeasurementRow(-30, RInt(1), RInt(0)), MeasurementRow(30, RInt(1), RInt(20))>>,
      <<MeasurementRow(-30, None, None), MeasurementRow(30, None, None)>>,
      <<MeasurementRow(-30, RInt(1), RInt(30)), MeasurementRow(30, RInt(1), RInt(30))>> }

\* get_traffic_for_event(event_id): None when the event is gone, else the event dict
FetchedEvents ==
    {None} \cup
    {Some([event_id |-> 1, event_name |-> "fair", category |-> "Sports",
           venue_name |-> "expo", traffic_measurements |-> ms]) : ms \in FetchedLists}

\* Every analysis is appended.
keeps_all(a) == TRUE

\* if analysis.get('has_data'): results.append(analysis)
keeps(a) == a[1].has_data

\* Loop body of analyze_all_events: the event is gone, skip it
AnalyzeAllSkip ==
    /\ analyze_all.pc = "loop"
    /\ analyze_all.i <= Len(analyze_all.fetched)
    /\ analyze_all.fetched[analyze_all.i] = None
    /\ analyze_all' = [analyze_all EXCEPT !.i = @ + 1]
    /\ UNCHANGED impactVars

\* Loop body of analyze_all_events: analyse the event, keep the analysis if it has data
AnalyzeAllNext ==
    /\ analyze_all.pc = "loop"
    /\ analyze_all.i <= Len(analyze_all.fetched)
    /\ analyze_all.fetched[analyze_all.i] # None
    /\ LET e == analyze_all.fetched[analyze_all.i][1]
           a == analyze_event_impact(e)
       IN  /\ a # Raised
           /\ impact_event' = e
           /\ analysis' = a
           /\ analyze_all' = [analyze_all EXCEPT
                 !.i = @ + 1,
                 !.results = IF keeps(a) THEN Append(@, a[1]) ELSE @]

\* Loop body of analyze_all_events: analyze_event_impact raises and nothing catches it
AnalyzeAllRaise ==
    /\ analyze_all.pc = "loop"
    /\ analyze_all.i <= Len(analyze_all.fetched)
    /\ analyze_all.fetched[analyze_all.i] # None
    /\ LET e == analyze_all.fetched[analyze_all.i][1]
       IN  /\ analyze_event_impact(e) = Raised
           /\ impact_event' = e
           /\ analysis' = Raised
           /\ analyze_all' = [analyze_all EXCEPT !.pc = "done", !.result = Raised]

\* The loop ran out of event ids: return results
AnalyzeAllReturn ==
    /\ analyze_all.pc = "loop"
    /\ analyze_all.i > Len(analyze_all.fetched)
    /\ analyze_all' = [analyze_all EXCEPT !.pc = "done", !.result = Some(analyze_all.results)]
    /\ UNCHANGED impactVars

ReportIdle == analyze_all = None

\* analyze_all_events after get_events_with_traffic_data: fetched[j] is what
\* get_traffic_for_event returns for the j-th id
ReportInit ==
    /\ \E fetched \in SeqsUpTo(FetchedEvents, MaxAnalysed) :
          analyze_all = [pc |-> "loop", fetched |-> fetched, i |-> 1, results |-> <<>>,
                         result |-> None]
    /\ ImpactIdle

(***************************************************************************)
(* Collection planner: collectors/traffic_collection_rules.py              *)
(***************************************************************************)
\* A category string is the sequence of its characters.
MAJOR_CATEGORIES ==
    << <<"S","p","o","r","t","s">>,
       <<"S","p","o","r","t","s","/","F","i","t","n","e","s","s">>,
       <<"F","e","s","t","i","v","a","l">>,
       <<"F","e","s","t","i","v","a","l","s"," ","&"," ","S","p","e","c","i","a","l"," ","E","v","e","n","t","s">>,
       <<"M","u","s","i","c">>,
       <<"C","o","n","c","e","r","t","s"," ","&"," ","M","u","s","i","c">> >>

UpperCase ==
    <<"A","B","C","D","E","F","G","H","I","J","K","L","M","N","O","P","Q","R","S","T","U","V","W","X","Y","Z">>

LowerCase ==
    <<"a","b","c","d","e","f","g","h","i","j","k","l","m","n","o","p","q","r","s","t","u","v","w","x","y","z">>

\* str.lower() of one character
LowerChar(c) ==
    IF \E i \in DOMAIN UpperCase : UpperCase[i] = c
    THEN LowerCase[CHOOSE i \in DOMAIN UpperCase : UpperCase[i] = c]
    ELSE c

\* text.lower()
lower(text) == [i \in DOMAIN text |-> LowerChar(text[i])]

\* part in text
contains(text, part) ==
    \E k \in 0..(Len(text) - Len(part)) : SubSeq(text, k + 1, k + Len(part)) = part

\* The match taken case-sensitive.
is_major_event_case_sensitive(category) ==
    \E n \in DOMAIN MAJOR_CATEGORIES : contains(category, MAJOR_CATEGORIES[n])

\* any(cat.lower() in category.lower() for cat in MAJOR_CATEGORIES)
is_major_event(category) ==
    \E n \in DOMAIN MAJOR_CATEGORIES : contains(lower(category), lower(MAJOR_CATEGORIES[n]))

\* bool(event.get('event_start_time')): None is false; a time of day, midnight included,
\* is true
has_start_time(value) == value # None

\* bool(event.get('is_multi_day')): None and False are false
is_multi_day(value) == value = Some(TRUE)

MajorPlan(type) ==
    [collect |-> TRUE, type |-> type, collect_before |-> TRUE, collect_after |-> TRUE,
     hours_before |-> 1, hours_after |-> 1, num_directions |-> 4,
     directions |-> <<"North", "South", "East", "West">>, estimated_calls |-> 8]

MinorPlan(type) ==
    [collect |-> TRUE, type |-> type, collect_before |-> TRUE, collect_after |-> FALSE,
     hours_before |-> 1, num_directions |-> 2, directions |-> <<"North", "South">>,
     estimated_calls |-> 2]

get_collection_plan(e) ==
    IF ~has_start_time(e.event_start_time)
    THEN [collect |-> FALSE, reason |-> "No event time available"]
    ELSE IF is_multi_day(e.is_multi_day)
    THEN IF is_major_event(e.category) THEN MajorPlan("major_multi_day")
         ELSE MinorPlan("minor_multi_day")
    ELSE IF is_major_event(e.category) THEN MajorPlan("major_single_day")
         ELSE MinorPlan("minor_single_day")

\* A category that is NULL in the store reaches the planner as None, which is no string.
NullCategory == <<"None">>

\* category.lower() of None raises AttributeError; the start time is looked at first.
lower_raises(e) == has_start_time(e.event_start_time) /\ e.category = NullCategory

\* One call of the planner
PlanEvent ==
    /\ plan = None
    /\ plan' = IF lower_raises(plan_event) THEN Raised
               ELSE Some(get_collection_plan(plan_event))
    /\ UNCHANGED plan_event

\* Categories as the scraper stores them: exact keywords, other case, a keyword inside a
\* longer word, a cut keyword, the empty string, minor categories.
PlanCategories ==
    { <<"S","p","o","r","t","s">>,
      <<"S","P","O","R","T","S">>,
      <<"e","S","p","o","r","t","s">>,
      <<"A","r","t","s"," ","&"," ","C","u","l","t","u","r","e">>,
      <<"m","u","s","i","c">>,
      <<"M","u","s","i">>,
      <<>>,
      <<"F","i","l","m"," ","F","e","s","t","i","v","a","l">>,
      <<"G","e","n","e","r","a","l">>,
      <<"S","p","o","r","t","/","F","i","t","n","e","s","s">> }

\* Start times: none, midnight, 19:00.
PlanStartTimes == {None, Some(0), Some(19 * 60 * TicksPerMinute)}

PlanIdle ==
    /\ plan_event = None
    /\ plan = None

PlanInit ==
    /\ plan_event \in [category : PlanCategories, is_multi_day : {None, Some(FALSE), Some(TRUE)},
                        event_start_time : PlanStartTimes]
    /\ plan = None

\* Events as estimate_traffic_cost.py reads them from the store: the category may be NULL.
PlanStoredInit ==
    /\ plan_event \in [category : PlanCategories \cup {NullCategory},
                        is_multi_day : {None, Some(FALSE), Some(TRUE)},
                        event_start_time : PlanStartTimes]
    /\ plan = None

(***************************************************************************)
(* One insert_events call: database/db_utils.py                            *)
(***************************************************************************)
MaxCallBatch == 3

\* The tables the unique constraint allows over the input rows: at most one row per key
StoredTables ==
    {SetToBag(rows) : rows \in {R \in SUBSET EventDicts :
                                   \A a, b \in R : EventKey(a) = EventKey(b) => a = b}}

\* insert_events(events_list) commits
InsertEventsCall ==
    /\ insert_ret = None
    /\ insert_events(events_list)
    /\ UNCHANGED events_list

\* insert_events(events_list) fails after the empty-list test: rollback, raise
InsertEventsCallRaises ==
    /\ insert_ret = None
    /\ events_list # <<>>
    /\ insert_events_raises
    /\ UNCHANGED events_list

CallIdle == events_list = <<>>

CallInit ==
    /\ events \in StoredTables
    /\ insert_ret = None
    /\ supplied = [k \in EventKeys |-> {}]
    /\ overwritten = FALSE
    /\ events_list \in SeqsUpTo(EventDicts, MaxCallBatch)

(***************************************************************************)
(* Connection discipline of the store operations: database/db_utils.py     *)
(***************************************************************************)
ConnIdle ==
    /\ store_op = None
    /\ connections = {}

MaxStoreOps == 3

\* The operations of db_utils.py by the shape of their try statement.
StoreOps ==
    {"insert_events", "insert_traffic_measurement", "insert_venue", "clear_all_events",
     "get_event_count", "query_to_dataframe", "test_connection"}

\* conn.commit() is part of the operation.
commits(name) ==
    name \in {"insert_events", "insert_traffic_measurement", "insert_venue",
              "clear_all_events"}

\* The operation has an except clause that rolls back and re-raises.
rolls_back(name) ==
    name \in {"insert_events", "insert_traffic_measurement", "insert_venue"}

\* The operation has an except clause at all (query_to_dataframe only logs).
has_except(name) == rolls_back(name) \/ name = "query_to_dataframe"

StoreOp(name, pc, conn, exc, base, opened, calls) ==
    [name |-> name, pc |-> pc, conn |-> conn, exc |-> exc, base |-> base,
     opened |-> opened, calls |-> calls]

Running(pc) == store_op # None /\ store_op.pc = pc

Goto(pc) == [store_op EXCEPT !.pc = pc]

\* Where control goes when a statement of the try block raises.
OnRaise ==
    [store_op EXCEPT !.exc = TRUE,
                     !.pc = IF has_except(store_op.name) THEN "except" ELSE "finally"]

\* finally: if conn and not conn.closed: conn.close()
close_unless_raising(op, conns) ==
    IF op.conn # None /\ ~op.exc THEN conns \ {op.conn[1]} ELSE conns

close_in_finally(op, conns) ==
    IF op.conn # None THEN conns \ {op.conn[1]} ELSE conns

\* A caller invokes one operation; conn = None comes first.
StoreOpCall ==
    /\ Running("idle")
    /\ store_op.calls < MaxStoreOps
    /\ \E name \in StoreOps :
          store_op' = StoreOp(name, "connect", None, FALSE, store_op.opened,
                              store_op.opened, store_op.calls + 1)
    /\ UNCHANGED connections

\* insert_events([]) returns 0 before it connects.
StoreOpEmptyBatch ==
    /\ Running("idle")
    /\ store_op.calls < MaxStoreOps
    /\ store_op' = StoreOp("insert_events", "idle", None, FALSE, store_op.opened,
                           store_op.opened, store_op.calls + 1)
    /\ UNCHANGED connections

\* conn = get_connection()
GetConnection ==
    /\ Running("connect")
    /\ LET id == store_op.opened + 1 IN
          /\ connections' = connections \cup {id}
          /\ store_op' = [store_op EXCEPT
                            !.conn = Some(id), !.opened = id,
                            !.pc = IF store_op.name = "test_connection"
                                   THEN "finally" ELSE "body"]

\* get_connection raises psycopg2.Error: conn stays None. test_connection
\* catches it and returns False.
GetConnectionRaises ==
    /\ Running("connect")
    /\ store_op' = IF store_op.name = "test_connection"
                   THEN [store_op EXCEPT !.pc = "idle"]
                   ELSE OnRaise
    /\ UNCHANGED connections

\* The statements between connecting and committing succeed.
StoreOpBody ==
    /\ Running("body")
    /\ store_op' = Goto(IF commits(store_op.name) THEN "commit" ELSE "finally")
    /\ UNCHANGED connections

StoreOpBodyRaises ==
    /\ Running("body")
    /\ store_op' = OnRaise
    /\ UNCHANGED connections

StoreOpCommit ==
    /\ Running("commit")
    /\ store_op' = Goto("finally")
    /\ UNCHANGED connections

StoreOpCommitRaises ==
    /\ Running("commit")
    /\ store_op' = OnRaise
    /\ UNCHANGED connections

\* except: if conn: conn.rollback(); raise. The rollback may raise in its
\* turn; either way an exception propagates through finally.
StoreOpExcept ==
    /\ Running("except")
    /\ store_op' = Goto("finally")
    /\ UNCHANGED connections

\* finally, then the return or the propagating exception.
StoreOpFinally ==
    /\ Running("finally")
    /\ connections' = close_in_finally(store_op, connections)
    /\ store_op' = Goto("idle")

ConnInit ==
    /\ store_op = StoreOp("none", "idle", None, FALSE, 0, 0, 0)
    /\ connections = {}

(***************************************************************************)
(* Vendor client: collectors/tomtom_routing_collector.py,                  *)
(* collectors/tomtom_flow_collector.py                                     *)
(***************************************************************************)
\* round(x, 2): x to the nearest hundredth, a tie to the even hundredth
Round2(x) ==
    LET t == 100 * x[1]
        q == t \div x[2]
        r == t % x[2]
        up == 2 * r > x[2] \/ (2 * r = x[2] /\ q % 2 = 1)
    IN  RNorm(IF up THEN q + 1 ELSE q, 100)

\* dict.get(key, default) of a key that may be missing
Get(field, default) == IF field = None THEN default ELSE field[1]

\* (distance_meters * 0.000621371 / seconds) * 3600, for seconds > 0
speed_mph(distance_meters, seconds) ==
    RNorm(distance_meters * 621371 * 9, 2500000 * seconds)

\* The thresholds taken inclusive.
traffic_level_inclusive(delay_minutes) ==
    IF ~RGreater(delay_minutes, RNorm(1, 2)) THEN "light"
    ELSE IF ~RGreater(delay_minutes, RInt(2)) THEN "moderate"
    ELSE IF ~RGreater(delay_minutes, RInt(5)) THEN "heavy"
    ELSE "severe"

\* if delay_minutes < 0.5 ... elif < 2 ... elif < 5 ... else
traffic_level(delay_minutes) ==
    IF RGreater(RNorm(1, 2), delay_minutes) THEN "light"
    ELSE IF RGreater(RInt(2), delay_minutes) THEN "moderate"
    ELSE IF RGreater(RInt(5), delay_minutes) THEN "heavy"
    ELSE "severe"

\* The measurement dict built from a route summary (tomtom_routing_collector)
routing_measurement(summary) ==
    LET distance_meters == Get(summary.lengthInMeters, 0)
        distance_miles == RNorm(distance_meters * 621371, 1000000000)
        travel_time_seconds == Get(summary.travelTimeInSeconds, 0)
        no_traffic_time_seconds ==
            Get(summary.noTrafficTravelTimeInSeconds, travel_time_seconds)
        avg_speed_mph ==
            IF travel_time_seconds > 0 THEN speed_mph(distance_meters, travel_time_seconds)
            ELSE RInt(0)
        typical_speed_mph ==
            IF no_traffic_time_seconds > 0
            THEN speed_mph(distance_meters, no_traffic_time_seconds)
            ELSE avg_speed_mph
        delay_seconds == travel_time_seconds - no_traffic_time_seconds
        delay_minutes == RNorm(delay_seconds, 60)
    IN  [traffic_level |-> traffic_level(delay_minutes),
         avg_speed_mph |-> Round2(avg_speed_mph),
         typical_speed_mph |-> Round2(typical_speed_mph),
         travel_time_seconds |-> travel_time_seconds,
         typical_time_seconds |-> no_traffic_time_seconds,
         delay_minutes |-> Round2(delay_minutes),
         distance_miles |-> Round2(distance_miles),
         data_source |-> "tomtom"]

\* Only requests.exceptions.RequestException is caught: a body that is not JSON
\* propagates.
measure_traffic_tomtom_uncaught(resp) ==
    IF ~TOMTOM_API_KEY THEN None
    ELSE IF resp.kind = "bad_json" THEN Raised
    ELSE IF resp.kind # "json" THEN None
    ELSE IF resp.data.routes = None THEN None
    ELSE IF Len(resp.data.routes[1]) = 0 THEN None
    ELSE IF resp.data.routes[1][1].summary = None THEN None
    ELSE Some(routing_measurement(resp.data.routes[1][1].summary[1]))

\* tomtom_routing_collector.measure_traffic_tomtom, given what the request yields
measure_traffic_tomtom(resp) ==
    IF ~TOMTOM_API_KEY THEN None
    ELSE IF resp.kind # "json" THEN None
    ELSE IF resp.data.routes = None THEN None
    ELSE IF Len(resp.data.routes[1]) = 0 THEN None
    ELSE IF resp.data.routes[1][1].summary = None THEN None
    ELSE Some(routing_measurement(resp.data.routes[1][1].summary[1]))

\* The measurement dict built from flowSegmentData (tomtom_flow_collector); the segment
\* carries no coordinates, so the distance is estimated from travel time and speed, and
\* when that gives nothing the wrapper takes the distance from the sample point to the
\* venue (radius_miles = 1.0)
flow_measurement(flow) ==
    LET current_speed == Get(flow.currentSpeed, 0)
        free_flow_speed == Get(flow.freeFlowSpeed, 0)
        current_travel_time == Get(flow.currentTravelTime, 0)
        free_flow_travel_time == Get(flow.freeFlowTravelTime, 0)
        delay_seconds == current_travel_time - free_flow_travel_time
        delay_minutes == RNorm(delay_seconds, 60)
        distance_miles ==
            IF current_speed > 0 THEN RNorm(current_travel_time * current_speed, 3600)
            ELSE RInt(0)
    IN  [traffic_level |-> traffic_level(delay_minutes),
         avg_speed_mph |-> Round2(RInt(current_speed)),
         typical_speed_mph |-> Round2(RInt(free_flow_speed)),
         travel_time_seconds |-> current_travel_time,
         typical_time_seconds |-> free_flow_travel_time,
         delay_minutes |-> Round2(delay_minutes),
         distance_miles |-> IF RGreater(Round2(distance_miles), RInt(0))
                            THEN Round2(distance_miles) ELSE RInt(1),
         data_source |-> "tomtom"]

\* tomtom_flow_collector.measure_traffic_tomtom over get_traffic_flow_at_point
get_traffic_flow_at_point(resp) ==
    IF ~TOMTOM_API_KEY THEN None
    ELSE IF resp.kind # "json" THEN None
    ELSE IF resp.data.flowSegmentData = None THEN None
    ELSE Some(flow_measurement(resp.data.flowSegmentData[1]))

\* requests.get is reached, once, when the key is configured
http_requests == IF TOMTOM_API_KEY THEN 1 ELSE 0

\* One call of the routing client
MeasureRouting ==
    /\ measurement = None
    /\ response.api = "routing"
    /\ measurement' = Some(measure_traffic_tomtom(response))
    /\ requests' = requests + http_requests
    /\ UNCHANGED <<response, TOMTOM_API_KEY, traffic_measurements, outcomes>>

\* One call of the flow client
MeasureFlow ==
    /\ measurement = None
    /\ response.api = "flow"
    /\ measurement' = Some(get_traffic_flow_at_point(response))
    /\ requests' = requests + http_requests
    /\ UNCHANGED <<response, TOMTOM_API_KEY, traffic_measurements, outcomes>>

\* The row insert_traffic_measurement writes for traffic_data (normalized fields)
traffic_row(venue_id, traffic_data, event_id, is_baseline) ==
    [venue_id |-> venue_id, event_id |-> event_id, is_baseline |-> is_baseline,
     traffic_level |-> traffic_data.traffic_level,
     avg_speed_mph |-> traffic_data.avg_speed_mph,
     typical_speed_mph |-> traffic_data.typical_speed_mph,
     travel_time_seconds |-> traffic_data.travel_time_seconds,
     typical_time_seconds |-> traffic_data.typical_time_seconds,
     delay_minutes |-> traffic_data.delay_minutes,
     distance_miles |-> traffic_data.distance_miles,
     data_source |-> traffic_data.data_source]

\* insert_traffic_measurement(venue_id, measurement_time, traffic_data, event_id), committed
insert_traffic_measurement(table, venue_id, traffic_data, event_id, is_baseline) ==
    table (+) SetToBag({traffic_row(venue_id, traffic_data, event_id, is_baseline)})

\* The collector got a measurement and stores it: for an event, or as baseline
StoreMeasurement ==
    /\ measurement # None
    /\ measurement[1] # None
    /\ outcomes = None
    /\ \E is_baseline \in BOOLEAN :
          traffic_measurements' =
              insert_traffic_measurement(traffic_measurements, 1, measurement[1][1],
                                         IF is_baseline THEN None ELSE Some(1), is_baseline)
    /\ outcomes' = <<"stored">>
    /\ UNCHANGED <<response, measurement, TOMTOM_API_KEY, requests>>

\* The collector got a measurement and insert_traffic_measurement raises: logged
StoreMeasurementFails ==
    /\ measurement # None
    /\ measurement[1] # None
    /\ outcomes = None
    /\ outcomes' = <<"insert_error">>
    /\ UNCHANGED <<response, measurement, TOMTOM_API_KEY, requests, traffic_measurements>>

\* The collector got None: the sample point is skipped
SkipPoint ==
    /\ measurement # None
    /\ measurement[1] = None
    /\ outcomes = None
    /\ outcomes' = <<"none">>
    /\ UNCHANGED <<response, measurement, TOMTOM_API_KEY, requests, traffic_measurements>>

MaxSamples == 2

\* random.uniform draws of (delay, speed) within the 'Sports' pattern: two for the hour
\* before the event, two for the hour after it
SampleDraws ==
    { <<RInt(0), 30>>, <<RNorm(1, 2), 30>>, <<RInt(4), 15>>, <<RInt(5), 20>> }

\* scripts/generate_sample_traffic_data.py create_measurement, for the drawn delay and speed
create_measurement(delay, speed) ==
    [traffic_level |-> traffic_level(delay),
     avg_speed_mph |-> Round2(RInt(speed)),
     typical_speed_mph |-> RInt(30),
     travel_time_seconds |-> 3600 \div speed,
     typical_time_seconds |-> 240,
     delay_minutes |-> Round2(delay),
     distance_miles |-> RInt(1),
     data_source |-> "sample_data"]

\* The sample-data script inserts one generated measurement
InsertSample ==
    /\ BagCardinality(traffic_measurements) < MaxSamples
    /\ \E draw \in SampleDraws :
          traffic_measurements' =
              insert_traffic_measurement(traffic_measurements, 1,
                                         create_measurement(draw[1], draw[2]), None, FALSE)
    /\ UNCHANGED <<response, measurement, TOMTOM_API_KEY, requests, outcomes>>

\* Travel times in seconds: against a free-flow time of 240 they put the delay on and
\* just below 0.5, 2 and 5 minutes, at 1 minute, at 0 and below 0.
TravelTimes ==
    {None, Some(0), Some(200), Some(240), Some(269), Some(270), Some(300), Some(359),
     Some(360), Some(539), Some(540)}

\* route['summary'] with each field present or missing
Summaries ==
    [lengthInMeters : {None, Some(300)}, travelTimeInSeconds : TravelTimes,
     noTrafficTravelTimeInSeconds : {None, Some(0), Some(240)}]

\* response.json() of the routing API: no 'routes', no route, a route without summary, a
\* route with a summary
RoutingBodies ==
    {[routes |-> None], [routes |-> Some(<<>>)], [routes |-> Some(<<[summary |-> None]>>)]}
    \cup {[routes |-> Some(<<[summary |-> Some(sm)]>>)] : sm \in Summaries}

\* data['flowSegmentData'] with each field present or missing
FlowSegments ==
    [currentSpeed : {None, Some(20)}, freeFlowSpeed : {None, Some(30)},
     currentTravelTime : {None, Some(240), Some(269), Some(270), Some(540)},
     freeFlowTravelTime : {None, Some(240)}]

FlowBodies ==
    {[flowSegmentData |-> None]} \cup {[flowSegmentData |-> Some(f)] : f \in FlowSegments}

\* What one HTTP request yields: requests.get raises (network, timeout), raise_for_status
\* raises (non-2xx), response.json() raises (malformed JSON), or the decoded body
Responses ==
    {[api |-> a, kind |-> k] :
        a \in {"routing", "flow"}, k \in {"network_error", "http_error", "bad_json"}}
    \cup {[api |-> "routing", kind |-> "json", data |-> b] : b \in RoutingBodies}
    \cup {[api |-> "flow", kind |-> "json", data |-> b] : b \in FlowBodies}

VendorIdle ==
    /\ response = None
    /\ measurement = None

VendorInit ==
    /\ response \in Responses
    /\ measurement = None

(***************************************************************************)
(* Aggregate reporting: analysis/event_traffic_correlation.py              *)
(***************************************************************************)
MaxSummary == 3

TopN == 10

\* The positions of values in descending order, equal values in their original
\* order (sorted(..., reverse=True) is stable): position n goes behind the
\* earlier positions whose value is not smaller.
RECURSIVE SortOrderDesc(_)
SortOrderDesc(values) ==
    IF values = <<>> THEN <<>>
    ELSE LET n == Len(values)
             prev == SortOrderDesc(SubSeq(values, 1, n - 1))
             k == Cardinality({j \in DOMAIN prev : ~RGreater(values[n], values[prev[j]])})
         IN  SubSeq(prev, 1, k) \o <<n>> \o SubSeq(prev, k + 1, Len(prev))

\* impact_levels: level -> number of analyses with that level
impact_levels(as) ==
    [level \in {as[j].impact.level : j \in DOMAIN as} |->
        Cardinality({j \in DOMAIN as : as[j].impact.level = level})]

\* category_impacts[cat]: the delay increases of the category that are not None
category_impacts(as, cat) ==
    LET of_cat == SelectSeq(as, LAMBDA a : a.category = cat /\ a.impact.delay_increase # None)
    IN  [j \in DOMAIN of_cat |-> of_cat[j].impact.delay_increase]

\* The mean taken without looking whether the list is empty.
category_avg_unguarded(delays) ==
    IF delays = <<>> THEN Raised ELSE Some(RDiv(RSum(delays), RInt(Len(delays))))

\* sum(delays) / len(delays) if delays else 0: the value, or ZeroDivisionError
category_avg(delays) ==
    IF delays = <<>> THEN Some(RInt(0)) ELSE Some(RDiv(RSum(delays), RInt(Len(delays))))

events_with_impact(as) == SelectSeq(as, LAMBDA a : a.impact.delay_increase # None)

\* The sort taken ascending and then reversed: ties come out in reverse order.
top_events_reversed(as) ==
    LET with == events_with_impact(as)
        asc == SortOrderDesc([j \in DOMAIN with |->
                                 RSub(RInt(0), with[j].impact.delay_increase)])
        ordered == [j \in DOMAIN with |-> with[asc[j]]]
        flipped == [j \in DOMAIN with |-> ordered[Len(with) + 1 - j]]
    IN  SubSeq(flipped, 1, Min(TopN, Len(flipped)))

\* sorted(events_with_impact, key=delay_increase, reverse=True)[:10]
top_events(as) ==
    LET with == events_with_impact(as)
        ordered == Permute(with, SortOrderDesc([j \in DOMAIN with |->
                                                   with[j].impact.delay_increase]))
    IN  SubSeq(ordered, 1, Min(TopN, Len(ordered)))

top_entry(e) ==
    [event_name |-> e.event_name, category |-> e.category, venue |-> e.venue_name,
     delay_increase |-> e.impact.delay_increase, impact_level |-> e.impact.level]

get_impact_summary(as) ==
    IF as = <<>> THEN Some([no_data |-> TRUE])
    ELSE LET cats == {as[j].category : j \in DOMAIN as}
             avg == [cat \in cats |-> category_avg(category_impacts(as, cat))]
             top == top_events(as)
         IN  IF \E cat \in cats : avg[cat] = Raised THEN Raised
             ELSE Some([total_events_analyzed |-> Len(as),
                        impact_levels |-> impact_levels(as),
                        category_avg_impact |-> [cat \in cats |-> avg[cat][1]],
                        top_impact_events |-> [j \in DOMAIN top |-> top_entry(top[j])]])

\* summary = get_impact_summary(analyses)
GetImpactSummary ==
    /\ impact_summary = None
    /\ impact_summary' = get_impact_summary(analyses)
    /\ UNCHANGED analyses

\* An analysis with data, as analyze_event_impact returns it: the n-th of a list.
SummaryAnalysis(n, cat, delay_increase) ==
    [has_data |-> TRUE, event_name |-> n, category |-> cat, venue_name |-> "expo",
     impact |-> [delay_increase |-> delay_increase, level |-> impact_level(delay_increase)]]

SummaryCategories == {"Sports", "Arts"}

SummaryDelays == {None, RInt(0), RInt(3), RNorm(-3, 1)}

\* Delay increases repeated in a cycle, for lists longer than the top list.
DelayCycles ==
    {<<RInt(3), RInt(0), RNorm(-3, 1)>>, <<RInt(3), RInt(3), None, RNorm(7, 2), RInt(3)>>,
     <<RInt(0)>>, <<None, None, RInt(6), RInt(0), RInt(6)>>}

LongAnalyses ==
    {[j \in 1..n |->
         SummaryAnalysis(j, IF j % 3 = 0 THEN "Arts" ELSE "Sports", c[(j % Len(c)) + 1])] :
        n \in {TopN + 1, TopN + 4}, c \in DelayCycles}

ShortAnalyses ==
    UNION {{[j \in 1..n |-> SummaryAnalysis(j, cat[j], d[j])] :
               cat \in [1..n -> SummaryCategories], d \in [1..n -> SummaryDelays]} :
           n \in 0..MaxSummary}

SummaryInit ==
    /\ analyses \in ShortAnalyses \cup LongAnalyses
    /\ impact_summary = None

(***************************************************************************)
(* Plan-driven scheduler: collectors/event_traffic_collector.py            *)
(***************************************************************************)
MaxRuns == 8

\* "Run this hourly" (scripts/auto_collect_traffic.py), in minutes
RunPeriod == 60

\* WHERE event_start_date = CURRENT_DATE AND event_start_time IS NOT NULL
\*   AND event_start_time BETWEEN CURRENT_TIME AND CURRENT_TIME + 2 hours
events_needing_collection(e, t) ==
    /\ e.event_start_time # None
    /\ e.event_start_time[1] >= t
    /\ e.event_start_time[1] <= t + 2 * 60

\* should_collect_now(event, collection_plan) at t; time_until_event in minutes
should_collect_now(e, collection_plan, t) ==
    LET time_until_event == e.event_start_time[1] - t IN
        IF ~collection_plan.collect THEN [collect |-> FALSE, window |-> None]
        ELSE IF collection_plan.collect_before /\ 30 <= time_until_event
                /\ time_until_event <= 90
        THEN [collect |-> TRUE, window |-> Some("before")]
        ELSE IF collection_plan.collect_after /\ -90 <= time_until_event
                /\ time_until_event <= -30
        THEN [collect |-> TRUE, window |-> Some("after")]
        ELSE [collect |-> FALSE, window |-> None]

\* One invocation of run_scheduled_collection; the next one comes an hour later.
RunScheduledCollection ==
    /\ upcoming # None
    /\ wall_clock < 8 * 60 + RunPeriod * MaxRuns
    /\ LET e == upcoming[1]
           decision_now == should_collect_now(e, get_collection_plan(e), wall_clock)
       IN  windows_collected' =
              IF events_needing_collection(e, wall_clock) /\ decision_now.collect
              THEN windows_collected \cup {<<decision_now.window[1], e.event_start_time[1] - wall_clock>>}
              ELSE windows_collected
    /\ wall_clock' = wall_clock + RunPeriod
    /\ UNCHANGED upcoming

RuleIdle ==
    /\ wall_clock = 0
    /\ upcoming = None
    /\ windows_collected = {}

\* The first run of the day comes between 08:00 and 08:45; the event starts at 10:30,
\* 10:45 or 12:00 and its category is a major or a minor one.
RuleInit ==
    /\ wall_clock \in {8 * 60, 8 * 60 + 15, 8 * 60 + 30, 8 * 60 + 45}
    /\ \E category \in {<<"S","p","o","r","t","s">>, <<"G","e","n","e","r","a","l">>},
          multi \in {Some(FALSE), Some(TRUE)},
          start \in {10 * 60 + 30, 10 * 60 + 45, 12 * 60} :
          upcoming = Some([category |-> category, is_multi_day |-> multi,
                           event_start_time |-> Some(start)])
    /\ windows_collected = {}

(***************************************************************************)
(* Event-id backfill: scripts/back_fill_event_ids.py                       *)
(***************************************************************************)
MaxMeasurements == 2

MaxBackfillRuns == 2

\* Times are minutes of one day. Venue 1 has events at 10:00 and 13:00 and one
\* without a start time; venue 2 has one event at 10:00.
BackfillEvents ==
    {[event_id |-> 1, venue_id |-> 1, event_start_time |-> Some(600)],
     [event_id |-> 2, venue_id |-> 1, event_start_time |-> Some(780)],
     [event_id |-> 3, venue_id |-> 1, event_start_time |-> None],
     [event_id |-> 4, venue_id |-> 2, event_start_time |-> Some(600)]}

\* hours_from_event, in minutes
minutes_from_event(tm, e) == tm.measurement_time - e.event_start_time[1]

\* The where clause without the baseline test.
unlinked_any(tm) == tm.event_id = None

\* WHERE tm.event_id IS NULL AND tm.is_baseline = FALSE
unlinked(tm) == tm.event_id = None /\ ~tm.is_baseline

\* The rows of potential_matches for one measurement
potential_matches(tm, event_table) ==
    {e \in event_table :
        /\ e.venue_id = tm.venue_id
        /\ unlinked(tm)
        /\ e.event_start_time # None
        /\ minutes_from_event(tm, e) >= -120
        /\ minutes_from_event(tm, e) <= 120}

\* The rows that can get match_rank = 1: ROW_NUMBER() ordered by the absolute time
\* difference, ties in an order the store chooses
rank_one(tm, event_table) ==
    {e \in potential_matches(tm, event_table) :
        \A o \in potential_matches(tm, event_table) :
            Abs(minutes_from_event(tm, e)) <= Abs(minutes_from_event(tm, o))}

\* if response.lower() != 'y': exit
confirms(answer) == answer \in {"y", "Y"}

BackfillRun(runs, answer, matches, updated_count) ==
    [runs |-> runs, response |-> answer, matches |-> matches, updated_count |-> updated_count]

\* One run of the script: count, match, ask, update and commit.
BackFillEventIds ==
    /\ backfill # None
    /\ backfill.runs < MaxBackfillRuns
    /\ LET rows == BagToSet(traffic_measurements)
           matched == {tm \in rows : rank_one(tm, BagToSet(events)) # {}}
       IN  IF {tm \in rows : unlinked(tm)} = {} \/ matched = {}
           THEN /\ backfill' = BackfillRun(backfill.runs + 1, None, 0, 0)
                /\ UNCHANGED traffic_measurements
           ELSE \E answer \in {"y", "Y", "n", ""} :
                   IF ~confirms(answer)
                   THEN /\ backfill' = BackfillRun(backfill.runs + 1, Some(answer),
                                                   Cardinality(matched), 0)
                        /\ UNCHANGED traffic_measurements
                   ELSE \E match \in [matched -> {e.event_id : e \in BagToSet(events)}] :
                           /\ \A tm \in matched :
                                 \E e \in rank_one(tm, BagToSet(events)) :
                                    match[tm] = e.event_id
                           /\ traffic_measurements' =
                                 SetToBag({IF tm \in matched
                                           THEN [tm EXCEPT !.event_id = Some(match[tm])]
                                           ELSE tm : tm \in rows})
                           /\ backfill' = BackfillRun(backfill.runs + 1, Some(answer),
                                                      Cardinality(matched),
                                                      Cardinality(matched))
    /\ UNCHANGED <<events, insert_ret, supplied, overwritten, TOMTOM_API_KEY, requests,
                   outcomes>>

BackfillIdle == backfill = None

\* A measurement is unlinked, linked to event 2, or baseline; it was taken at venue 1 or
\* 2 at 07:59, 08:00, 11:30 (as far from the event at 10:00 as from the one at 13:00) or
\* 11:40.
BackfillRows(n) ==
    {[measurement_id |-> n, venue_id |-> v, measurement_time |-> t,
      event_id |-> link[1], is_baseline |-> link[2]] :
        v \in {1, 2}, t \in {479, 480, 690, 700},
        link \in {<<None, FALSE>>, <<Some(2), FALSE>>, <<None, TRUE>>}}

BackfillTables ==
    UNION {{SetToBag(Range(row)) :
               row \in {f \in [1..k -> UNION {BackfillRows(n) : n \in 1..k}] :
                           \A n \in 1..k : f[n].measurement_id = n}} :
           k \in 0..MaxMeasurements}

BackfillInit ==
    /\ events = SetToBag(BackfillEvents)
    /\ insert_ret = None
    /\ supplied = [k \in EventKeys |-> {}]
    /\ overwritten = FALSE
    /\ TOMTOM_API_KEY = FALSE
    /\ requests = 0
    /\ outcomes = None
    /\ traffic_measurements \in BackfillTables
    /\ backfill = BackfillRun(0, None, 0, 0)

(***************************************************************************)
(* Event traffic deployment: run_prefect_flows.py                          *)
(***************************************************************************)
MaxInvocations == 16

\* interval=timedelta(minutes=30)
DeploymentInterval == 30

\* The first invocation of the morning comes between 09:00 and 09:30 of day 1.
FirstInvocation == TicksPerDay + 9 * 60 * TicksPerMinute

\* One invocation of run_tomtom_event_collection without a vendor or store failure and
\* below the call ceiling: every event the query returns that is at a collection point
\* is collected for that point. The next invocation comes 30 minutes later.
PeriodicCollection ==
    /\ now < FirstInvocation + MaxInvocations * DeploymentInterval * TicksPerMinute
    /\ LET found == get_events_needing_collection(event_rows, now)
           due == {n \in DOMAIN found : should_collect_now_tomtom(found[n], now).collect}
       IN  points_collected' =
              points_collected (+)
              SetToBag({<<found[n].event_id,
                          should_collect_now_tomtom(found[n], now).collection_point[1]>> :
                        n \in due})
    /\ now' = now + DeploymentInterval * TicksPerMinute
    /\ UNCHANGED <<event_rows, event, decision, run, collectVars>>

PeriodicIdle == points_collected = EmptyBag

\* Two events of day 1, at 12:00 and at 13:10; the invocations start at any half-minute
\* of the half hour from 09:00.
PeriodicInit ==
    /\ now \in {FirstInvocation + phase : phase \in 0..(DeploymentInterval * TicksPerMinute - 1)}
    /\ event = None
    /\ decision = None
    /\ event_rows = <<[event_id |-> 1, venue_id |-> 1, event_start_date |-> 1,
                       event_start_time |-> Some(12 * 60 * TicksPerMinute)],
                      [event_id |-> 2, venue_id |-> 1, event_start_date |-> 1,
                       event_start_time |-> Some((13 * 60 + 10) * TicksPerMinute)]>>
    /\ run = RunLocals("idle", TaskMaxCalls)
    /\ points_collected = EmptyBag

(***************************************************************************)
(* Baseline flow task: flows/collect_traffic.py,                           *)
(* collectors/baseline_schedule.py                                         *)
(***************************************************************************)
\* result.get(key, default)
DictGet(dict, key, default) == IF key \in DOMAIN dict THEN dict[key] ELSE default

\* run_baseline_collection at time t; outcome is what collect_baseline_for_group does when
\* it is called: it returns its statistics, or raises (get_all_venues cannot reach the
\* store).
run_baseline_collection(t, outcome) ==
    LET check == should_collect_baseline_now(t)
    IN  IF ~check.collect
        THEN [collected |-> FALSE, reason |-> "Not collection time"]
        ELSE IF outcome = Raised
        THEN [collected |-> FALSE, error |-> "Exception"]
        ELSE [group |-> check.group[1],
              total_venues |-> outcome[1].total_venues,
              venues_processed |-> outcome[1].venues_processed,
              measurements_collected |-> outcome[1].measurements_collected,
              api_calls_made |-> outcome[1].api_calls_made,
              collected |-> TRUE,
              time_slot |-> check.time_slot[1]]

collect_baseline_traffic(result) ==
    IF result.collected
    THEN [group |-> result.group,
          venues_processed |-> result.venues_processed,
          measurements |-> result.measurements_collected,
          api_calls |-> result.api_calls_made]
    ELSE [skipped |-> TRUE, reason |-> DictGet(result, "reason", "Not collection time")]

\* One run of the flow task.
CollectBaselineTraffic ==
    /\ baseline_task # None
    /\ baseline_task.result = None
    /\ baseline_check' = should_collect_baseline_now(clock)
    /\ baseline_task' =
          [baseline_task EXCEPT
              !.result = Some(collect_baseline_traffic(
                             run_baseline_collection(clock, baseline_task.outcome)))]
    /\ UNCHANGED clock

\* What collect_baseline_for_group returns for a group of total_venues venues, two
\* measurements stored for every venue processed.
GroupStatistics ==
    {[total_venues |-> total, venues_processed |-> processed,
      measurements_collected |-> 2 * processed, api_calls_made |-> 2 * processed] :
        total \in 0..MaxVenues, processed \in 0..MaxVenues}

GroupOutcomes == {Raised} \cup {Some(stats) : stats \in {g \in GroupStatistics :
                                                    g.venues_processed <= g.total_venues}}

TaskIdle == baseline_task = None

\* The task runs in any week of the month, on a slot, at the edge of its tolerance or
\* outside of it.
TaskInit ==
    /\ clock \in [day : {1, 8, 21, 31}, hour : {6, 7, 12, 23}, minute : {0, 15, 16, 45}]
    /\ baseline_check = None
    /\ baseline_task \in [outcome : GroupOutcomes, result : {None}]

(***************************************************************************)
(* Specifications                                                          *)
(***************************************************************************)
SummaryIdle ==
    /\ analyses = None
    /\ impact_summary = None

ToolsIdle == SummaryIdle /\ RuleIdle /\ BackfillIdle /\ PeriodicIdle /\ TaskIdle

ServicesIdle == ReportIdle /\ PlanIdle /\ CallIdle /\ ConnIdle /\ VendorIdle /\ ToolsIdle

Idle ==
    /\ BaseSchedIdle /\ SchedIdle /\ CollectIdle /\ BaselineIdle /\ EventRunIdle
    /\ ImpactIdle /\ ServicesIdle

othersOfStore ==
    <<baseSchedVars, schedVars, collectVars, baselineVars, eventRunVars, impactVars,
      servicesVars>>

InitStore == StoreInit /\ Idle

NextStore ==
    \/ InsertEvents /\ UNCHANGED othersOfStore
    \/ insert_events_raises /\ UNCHANGED othersOfStore

SpecStore == InitStore /\ [][NextStore]_vars

InitBaseSched ==
    /\ StoreInit /\ BaseSchedInit /\ SchedIdle /\ CollectIdle /\ BaselineIdle
    /\ EventRunIdle /\ ImpactIdle /\ ServicesIdle

NextBaseSched ==
    CheckBaseline
        /\ UNCHANGED <<storeVars, schedVars, collectVars, baselineVars, eventRunVars,
                       impactVars, servicesVars>>

SpecBaseSched == InitBaseSched /\ [][NextBaseSched]_vars

InitSched ==
    /\ StoreInit /\ BaseSchedIdle /\ SchedInit /\ CollectIdle /\ BaselineIdle
    /\ EventRunIdle /\ ImpactIdle /\ ServicesIdle

NextSched ==
    Decide
        /\ UNCHANGED <<storeVars, baseSchedVars, collectVars, baselineVars, eventRunVars,
                       impactVars, servicesVars>>

SpecSched == InitSched /\ [][NextSched]_vars

othersOfBaseline ==
    <<storeVars, baseSchedVars, schedVars, eventRunVars, impactVars, servicesVars>>

othersOfEventRun == <<storeVars, baseSchedVars, baselineVars, impactVars, servicesVars>>

InitBaseline ==
    /\ StoreInit /\ BaseSchedIdle /\ SchedIdle /\ CollectInit /\ BaselineInit
    /\ EventRunIdle /\ ImpactIdle /\ ServicesIdle

NextBaseline ==
    \/ BaselineStart /\ UNCHANGED othersOfBaseline
    \/ BaselineVenue /\ UNCHANGED othersOfBaseline
    \/ BaselineBreak /\ UNCHANGED othersOfBaseline
    \/ BaselineReturn /\ UNCHANGED othersOfBaseline

SpecBaseline == InitBaseline /\ [][NextBaseline]_vars

InitEventRun ==
    /\ StoreInit /\ BaseSchedIdle /\ CollectInit /\ BaselineIdle /\ EventRunInit
    /\ ImpactIdle /\ ServicesIdle

NextEventRun ==
    \/ EventRunNoEvents /\ UNCHANGED othersOfEventRun
    \/ EventRunStart /\ UNCHANGED othersOfEventRun
    \/ EventSkip /\ UNCHANGED othersOfEventRun
    \/ EventBreak /\ UNCHANGED othersOfEventRun
    \/ EventCollect /\ UNCHANGED othersOfEventRun
    \/ EventRunReturn /\ UNCHANGED othersOfEventRun

SpecEventRun == InitEventRun /\ [][NextEventRun]_vars

InitImpact ==
    /\ StoreInit /\ BaseSchedIdle /\ SchedIdle /\ CollectIdle /\ BaselineIdle
    /\ EventRunIdle /\ ImpactInit /\ ServicesIdle

NextImpact ==
    AnalyzeEvent
        /\ UNCHANGED <<storeVars, baseSchedVars, schedVars, collectVars, baselineVars,
                       eventRunVars, servicesVars>>

SpecImpact == InitImpact /\ [][NextImpact]_vars

InitLevel ==
    /\ StoreInit /\ BaseSchedIdle /\ SchedIdle /\ CollectIdle /\ BaselineIdle
    /\ EventRunIdle /\ LevelInit /\ ServicesIdle

SpecLevel == InitLevel /\ [][NextImpact]_vars

othersOfReport ==
    <<storeVars, baseSchedVars, schedVars, collectVars, baselineVars, eventRunVars,
      planVars, callVars, connVars, vendorVars, toolsVars>>

InitReport ==
    /\ StoreInit /\ BaseSchedIdle /\ SchedIdle /\ CollectIdle /\ BaselineIdle
    /\ EventRunIdle /\ ReportInit /\ PlanIdle /\ CallIdle /\ ConnIdle /\ VendorIdle /\ ToolsIdle

NextReport ==
    \/ AnalyzeAllSkip /\ UNCHANGED othersOfReport
    \/ AnalyzeAllNext /\ UNCHANGED othersOfReport
    \/ AnalyzeAllRaise /\ UNCHANGED othersOfReport
    \/ AnalyzeAllReturn /\ UNCHANGED othersOfReport

SpecReport == InitReport /\ [][NextReport]_vars

InitPlan ==
    /\ StoreInit /\ BaseSchedIdle /\ SchedIdle /\ CollectIdle /\ BaselineIdle
    /\ EventRunIdle /\ ImpactIdle /\ ReportIdle /\ PlanInit /\ CallIdle /\ ConnIdle
    /\ VendorIdle /\ ToolsIdle

NextPlan ==
    PlanEvent
        /\ UNCHANGED <<storeVars, baseSchedVars, schedVars, collectVars, baselineVars,
                       eventRunVars, impactVars, reportVars, callVars, connVars, vendorVars, toolsVars>>

SpecPlan == InitPlan /\ [][NextPlan]_vars

InitPlanStored ==
    /\ StoreInit /\ BaseSchedIdle /\ SchedIdle /\ CollectIdle /\ BaselineIdle
    /\ EventRunIdle /\ ImpactIdle /\ ReportIdle /\ PlanStoredInit /\ CallIdle /\ ConnIdle
    /\ VendorIdle /\ ToolsIdle

SpecPlanStored == InitPlanStored /\ [][NextPlan]_vars

othersOfConn ==
    <<storeVars, baseSchedVars, schedVars, collectVars, baselineVars, eventRunVars,
      impactVars, reportVars, planVars, callVars, vendorVars, toolsVars>>

InitConn ==
    /\ StoreInit /\ BaseSchedIdle /\ SchedIdle /\ CollectIdle /\ BaselineIdle
    /\ EventRunIdle /\ ImpactIdle /\ ReportIdle /\ PlanIdle /\ CallIdle /\ ConnInit
    /\ VendorIdle /\ ToolsIdle

NextConn ==
    \/ StoreOpCall /\ UNCHANGED othersOfConn
    \/ StoreOpEmptyBatch /\ UNCHANGED othersOfConn
    \/ GetConnection /\ UNCHANGED othersOfConn
    \/ GetConnectionRaises /\ UNCHANGED othersOfConn
    \/ StoreOpBody /\ UNCHANGED othersOfConn
    \/ StoreOpBodyRaises /\ UNCHANGED othersOfConn
    \/ StoreOpCommit /\ UNCHANGED othersOfConn
    \/ StoreOpCommitRaises /\ UNCHANGED othersOfConn
    \/ StoreOpExcept /\ UNCHANGED othersOfConn
    \/ StoreOpFinally /\ UNCHANGED othersOfConn

SpecConn == InitConn /\ [][NextConn]_vars

othersOfVendor ==
    <<storeVars, baseSchedVars, schedVars, baselineVars, eventRunVars, impactVars,
      reportVars, planVars, callVars, connVars, toolsVars>>

InitVendor ==
    /\ StoreInit /\ BaseSchedIdle /\ SchedIdle /\ CollectInit /\ BaselineIdle
    /\ EventRunIdle /\ ImpactIdle /\ ReportIdle /\ PlanIdle /\ CallIdle /\ ConnIdle
    /\ VendorInit /\ ToolsIdle

NextVendor ==
    \/ MeasureRouting /\ UNCHANGED othersOfVendor
    \/ MeasureFlow /\ UNCHANGED othersOfVendor
    \/ StoreMeasurement /\ UNCHANGED othersOfVendor
    \/ StoreMeasurementFails /\ UNCHANGED othersOfVendor
    \/ SkipPoint /\ UNCHANGED othersOfVendor
    \/ InsertSample /\ UNCHANGED othersOfVendor

SpecVendor == InitVendor /\ [][NextVendor]_vars

InitEventRetry ==
    /\ StoreInit /\ BaseSchedIdle /\ CollectInit /\ BaselineIdle /\ EventRetryInit
    /\ ImpactIdle /\ ServicesIdle

\* Two events store at most four measurements, so the ceiling of 50 is never reached and
\* the run never breaks out of its loop.
NextEventRetry ==
    \/ EventRunNoEvents /\ UNCHANGED othersOfEventRun
    \/ EventRunStart /\ UNCHANGED othersOfEventRun
    \/ EventSkip /\ UNCHANGED othersOfEventRun
    \/ EventCollect /\ UNCHANGED othersOfEventRun
    \/ EventRunReturn /\ UNCHANGED othersOfEventRun
    \/ EventRunFails /\ UNCHANGED othersOfEventRun
    \/ EventRunRetry /\ UNCHANGED othersOfEventRun

SpecEventRetry == InitEventRetry /\ [][NextEventRetry]_vars

othersOfCall ==
    <<baseSchedVars, schedVars, collectVars, baselineVars, eventRunVars, impactVars,
      reportVars, planVars, connVars, vendorVars, toolsVars>>

InitCall ==
    /\ CallInit /\ BaseSchedIdle /\ SchedIdle /\ CollectIdle /\ BaselineIdle
    /\ EventRunIdle /\ ImpactIdle /\ ReportIdle /\ PlanIdle /\ ConnIdle /\ VendorIdle /\ ToolsIdle

NextCall ==
    \/ InsertEventsCall /\ UNCHANGED othersOfCall
    \/ InsertEventsCallRaises /\ UNCHANGED othersOfCall

SpecCall == InitCall /\ [][NextCall]_vars

InitSummary ==
    /\ StoreInit /\ BaseSchedIdle /\ SchedIdle /\ CollectIdle /\ BaselineIdle
    /\ EventRunIdle /\ ImpactIdle /\ ReportIdle /\ PlanIdle /\ CallIdle /\ ConnIdle
    /\ VendorIdle /\ SummaryInit /\ RuleIdle /\ BackfillIdle /\ PeriodicIdle /\ TaskIdle

NextSummary ==
    GetImpactSummary
        /\ UNCHANGED <<storeVars, baseSchedVars, schedVars, collectVars, baselineVars,
                       eventRunVars, impactVars, reportVars, planVars, callVars, connVars,
                       vendorVars, ruleVars, backfillVars, periodicVars, taskVars>>

SpecSummary == InitSummary /\ [][NextSummary]_vars

InitRule ==
    /\ StoreInit /\ BaseSchedIdle /\ SchedIdle /\ CollectIdle /\ BaselineIdle
    /\ EventRunIdle /\ ImpactIdle /\ ReportIdle /\ PlanIdle /\ CallIdle /\ ConnIdle
    /\ VendorIdle /\ SummaryIdle /\ RuleInit /\ BackfillIdle /\ PeriodicIdle /\ TaskIdle

NextRule ==
    RunScheduledCollection
        /\ UNCHANGED <<storeVars, baseSchedVars, schedVars, collectVars, baselineVars,
                       eventRunVars, impactVars, reportVars, planVars, callVars, connVars,
                       vendorVars, summaryVars, backfillVars, periodicVars, taskVars>>

SpecRule == InitRule /\ [][NextRule]_vars

InitBackfill ==
    /\ BackfillInit /\ BaseSchedIdle /\ SchedIdle /\ BaselineIdle /\ EventRunIdle
    /\ ImpactIdle /\ ReportIdle /\ PlanIdle /\ CallIdle /\ ConnIdle /\ VendorIdle
    /\ SummaryIdle /\ RuleIdle /\ PeriodicIdle /\ TaskIdle

NextBackfill ==
    BackFillEventIds
        /\ UNCHANGED <<baseSchedVars, schedVars, baselineVars, eventRunVars, impactVars,
                       reportVars, planVars, callVars, connVars, vendorVars, summaryVars,
                       ruleVars, periodicVars, taskVars>>

SpecBackfill == InitBackfill /\ [][NextBackfill]_vars

InitPeriodic ==
    /\ StoreInit /\ BaseSchedIdle /\ CollectIdle /\ BaselineIdle /\ ImpactIdle
    /\ ReportIdle /\ PlanIdle /\ CallIdle /\ ConnIdle /\ VendorIdle
    /\ SummaryIdle /\ RuleIdle /\ BackfillIdle /\ PeriodicInit /\ TaskIdle

NextPeriodic ==
    PeriodicCollection
        /\ UNCHANGED <<storeVars, baseSchedVars, baselineVars, impactVars, reportVars,
                       planVars, callVars, connVars, vendorVars, summaryVars, ruleVars,
                       backfillVars, taskVars>>

SpecPeriodic == InitPeriodic /\ [][NextPeriodic]_vars

InitTask ==
    /\ StoreInit /\ SchedIdle /\ CollectIdle /\ BaselineIdle /\ EventRunIdle /\ ImpactIdle
    /\ ReportIdle /\ PlanIdle /\ CallIdle /\ ConnIdle /\ VendorIdle
    /\ SummaryIdle /\ RuleIdle /\ BackfillIdle /\ PeriodicIdle /\ TaskInit

NextTask ==
    CollectBaselineTraffic
        /\ UNCHANGED <<storeVars, schedVars, collectVars, baselineVars, eventRunVars,
                       impactVars, reportVars, planVars, callVars, connVars, vendorVars,
                       summaryVars, ruleVars, backfillVars, periodicVars>>

SpecTask == InitTask /\ [][NextTask]_vars

(***************************************************************************)
(* Properties                                                              *)
(***************************************************************************)
RowsWithKey(k) == {r \in BagToSet(events) : EventKey(r) = k}

\* C1: after any sequence of insert_events calls the store holds exactly one row for every
\* key ever inserted (and none for any other key), and the row's non-key fields are those
\* supplied for the key by the most recent call that contained it.
C1_OneRowPerKeyLastWriteWins ==
    \A k \in EventKeys :
        /\ supplied[k] = {} => RowsWithKey(k) = {}
        /\ supplied[k] # {} =>
              /\ Cardinality(RowsWithKey(k)) = 1
              /\ \A r \in RowsWithKey(k) : events[r] = 1 /\ r.category \in supplied[k]

\* A call re-inserted the only stored key with another category, and the single row shows
\* the new one.
C1_Witness ==
    /\ overwritten
    /\ insert_ret = <<1>>
    /\ \E k \in EventKeys :
          /\ supplied[k] = {"Arts"}
          /\ \E r \in RowsWithKey(k) : r.category = "Arts"
          /\ \A other \in EventKeys \ {k} : supplied[other] = {}

\* C6: the day of month selects the venue group of the 4-group rotation, days 1-7 group 1,
\* 8-14 group 2, 15-21 group 3, 22-31 group 4, and every day 1..31 yields a group.
C6_GroupOfDay ==
    baseline_check # None =>
        /\ baseline_check.group # None
        /\ clock.day \in 1..7 => baseline_check.group = <<1>>
        /\ clock.day \in 8..14 => baseline_check.group = <<2>>
        /\ clock.day \in 15..21 => baseline_check.group = <<3>>
        /\ clock.day \in 22..31 => baseline_check.group = <<4>>

\* The scheduler ran on the last day of a 31-day month and chose group 4.
C6_Witness ==
    /\ baseline_check # None
    /\ clock.day = 31
    /\ baseline_check.group = <<4>>

\* The six slots as minutes of the day, with their labels.
SlotTable ==
    { <<420, <<"0","7",":","0","0">> >>, <<720, <<"1","2",":","0","0">> >>,
      <<1020, <<"1","7",":","0","0">> >>, <<1140, <<"1","9",":","0","0">> >>,
      <<1260, <<"2","1",":","0","0">> >>, <<1380, <<"2","3",":","0","0">> >> }

NearSlots(t) == {st \in SlotTable : Abs(t.hour * 60 + t.minute - st[1]) <= 15}

\* C7: should_collect_baseline_now collects exactly when the time of day is within 15
\* minutes (inclusive) of one of the six slots; it then returns the day's group and that
\* slot, and no time is near two slots; 07:05 collects for 07:00 and 07:20 does not collect.
C7_CollectAtSlots ==
    baseline_check # None =>
        /\ baseline_check.collect <=> NearSlots(clock) # {}
        /\ Cardinality(NearSlots(clock)) <= 1
        /\ baseline_check.collect =>
              /\ baseline_check.group = get_current_baseline_group(clock.day)
              /\ baseline_check.group # None
              /\ \E st \in NearSlots(clock) : baseline_check.time_slot = <<st[2]>>
        /\ ~baseline_check.collect => baseline_check.time_slot = None
        /\ (clock.hour = 7 /\ clock.minute = 5) =>
              baseline_check.collect /\ baseline_check.time_slot = << <<"0","7",":","0","0">> >>
        /\ (clock.hour = 7 /\ clock.minute = 20) => ~baseline_check.collect

\* The clock stands exactly 15 minutes after a slot and the run is due for that slot.
C7_Witness ==
    /\ baseline_check # None
    /\ clock.hour = 23 /\ clock.minute = 15
    /\ baseline_check.collect
    /\ baseline_check.time_slot = << <<"2","3",":","0","0">> >>

\* Minutes are compared in ticks: x minutes is x * TicksPerMinute ticks.
Offsets == {-120, -90, -60, -30, 0, 30, 60, 90, 120}

C5_WindowMatchesClock ==
    (decision # None /\ decision.collect) =>
        LET offset == now - event_datetime(event)
        IN  decision.window =
              IF offset < -15 * TicksPerMinute THEN <<"before">>
              ELSE IF offset > 15 * TicksPerMinute THEN <<"after">>
              ELSE <<"during">>

\* C2: a baseline run never sends more vendor requests than its ceiling max_calls.
C2_RequestsWithinCeiling ==
    baseline.pc \in {"loop", "done"} => requests <= baseline.max_calls

\* C3: an event collection run never reports more api_calls_made, and never sends more
\* vendor requests, than its ceiling max_calls.
C3_EventCallsWithinCeiling ==
    run.pc = "done" =>
        /\ run.result[1].api_calls_made <= run.max_calls
        /\ requests <= run.max_calls

BaselineRowsOf(venue_id) ==
    {r \in BagToSet(traffic_measurements) : r.venue_id = venue_id /\ r.is_baseline}

\* C8: in a baseline run a vendor failure or an insert failure never aborts the run: every
\* measurement the vendor returned whose insert did not fail is stored, whatever happened
\* at the venue's other points; the loop goes on to the next venue until the group is
\* exhausted or the ceiling is reached; and the run returns its counts.
C8_FailuresDoNotAbort ==
    /\ (baseline.pc \in {"loop", "done"} /\ outcomes # None) =>
          \A n \in DOMAIN outcomes :
              outcomes[n] = "stored" <=>
                  \E r \in BaselineRowsOf(baseline.venues[baseline.i - 1]) :
                      r.direction = generate_points_around_location[n]
    /\ baseline.pc = "done" =>
          /\ baseline.result # None
          /\ baseline.result # Raised
          /\ baseline.result[1].venues_processed = baseline.i - 1
          /\ \/ baseline.i = Len(baseline.venues) + 1
             \/ baseline.api_calls_made >= baseline.max_calls

\* A run returned after three venues; at the last one the first insert failed, the second
\* point gave no measurement and the third was stored; the first venue lost a measurement too.
C8_Witness ==
    /\ baseline.pc = "done"
    /\ baseline.i = 4
    /\ outcomes # None
    /\ outcomes[1] = "insert_error" /\ outcomes[2] = "none" /\ outcomes[3] = "stored"
    /\ Cardinality(BaselineRowsOf(baseline.venues[1])) < 4
    /\ baseline.result[1].venues_processed = 3

\* The measurements handed to the analysis, as a set (their times are distinct).
InputMeasurements == Range(impact_event.traffic_measurements)

\* The floor(n/2) earliest measurements, and the others.
FirstHalf ==
    {m \in InputMeasurements :
        Cardinality({x \in InputMeasurements : x.measurement_time < m.measurement_time})
            < Cardinality(InputMeasurements) \div 2}

SecondHalf == InputMeasurements \ FirstHalf

WithDelay(S) == {m \in S : m.delay_minutes # None}

\* Sum of the (whole-minute) delays of a set of measurements that have one.
RECURSIVE DelaySum(_)
DelaySum(S) ==
    IF S = {} THEN 0
    ELSE LET m == CHOOSE x \in S : TRUE
         IN  m.delay_minutes[1] + DelaySum(S \ {m})

\* avg is the mean delay of the measurements of S that have a delay (None if there is none).
IsMeanDelay(avg, S) ==
    IF WithDelay(S) = {} THEN avg = None
    ELSE /\ avg # None
         /\ avg[1] * Cardinality(WithDelay(S)) = avg[2] * DelaySum(WithDelay(S))

HalfIs(stats, S) ==
    IF S = {} THEN stats = None
    ELSE /\ stats # None
         /\ stats[1].count = Cardinality(S)
         /\ IsMeanDelay(stats[1].avg_delay, S)

Returned(a) == Len(a) = 1

TimesAndDelays == {<<m.measurement_time, m.delay_minutes>> : m \in InputMeasurements}

ScenarioInput ==
    TimesAndDelays = {<<-60, RInt(1)>>, <<-30, RInt(1)>>, <<30, RInt(4)>>, <<60, RInt(4)>>}

\* C9: analyze_event_impact splits the measurements by count after sorting them by time:
\* 'before' describes the floor(n/2) earliest measurements and 'during' the others, whatever
\* their times relative to the event start; delays 1, 1, 4, 4 at -60, -30, +30, +60 give
\* before mean 1, during mean 4, delay_increase 3 and level 'high'.
C9_SplitByCount ==
    (Returned(analysis) /\ analysis[1].has_data) =>
        /\ HalfIs(analysis[1].before, FirstHalf)
        /\ HalfIs(analysis[1].during, SecondHalf)
        /\ Cardinality(FirstHalf) = Cardinality(InputMeasurements) \div 2
        /\ analysis[1].total_measurements = Cardinality(InputMeasurements)
        /\ ScenarioInput =>
              /\ analysis[1].before[1].avg_delay = <<1, 1>>
              /\ analysis[1].during[1].avg_delay = <<4, 1>>
              /\ analysis[1].impact.delay_increase = <<3, 1>>
              /\ analysis[1].impact.level = "high"

\* The scenario, handed over out of time order, was analysed as 'high'.
C9_Witness ==
    /\ Returned(analysis)
    /\ ScenarioInput
    /\ impact_event.traffic_measurements[1].measurement_time = 60
    /\ impact_event.traffic_measurements[2].measurement_time = -60
    /\ analysis[1].impact.level = "high"
    /\ analysis[1].before[1].count = 2

\* C10: when both halves have a mean delay, delay_increase is the during mean minus the
\* before mean and delay_increase_pct is delay_increase / (|before mean| + 1) x 100, each
\* mean being taken over the non-null delays of its half; when a half has no non-null
\* delay, no delay_increase is reported.
C10_DelayIncrease ==
    (Returned(analysis) /\ analysis[1].has_data) =>
        LET inc == analysis[1].impact.delay_increase
            pct == analysis[1].impact.delay_increase_pct
            bef == analysis[1].before[1].avg_delay
            dur == analysis[1].during[1].avg_delay
        IN  IF WithDelay(FirstHalf) # {} /\ WithDelay(SecondHalf) # {}
            THEN /\ IsMeanDelay(bef, FirstHalf)
                 /\ IsMeanDelay(dur, SecondHalf)
                 /\ inc # None
                 /\ inc[1] * dur[2] * bef[2] = inc[2] * (dur[1] * bef[2] - bef[1] * dur[2])
                 /\ pct # None
                 /\ pct[1] * inc[2] * (Abs(bef[1]) + bef[2]) = pct[2] * 100 * inc[1] * bef[2]
            ELSE inc = None /\ pct = None

\* Both halves hold a measurement without delay next to one with a delay, and the increase
\* from mean 1 to mean 4 is reported as 3 minutes and 150 percent.
C10_Witness ==
    /\ Returned(analysis)
    /\ analysis[1].has_data
    /\ \E m \in FirstHalf : m.delay_minutes = None
    /\ \E m \in SecondHalf : m.delay_minutes = None
    /\ analysis[1].impact.delay_increase = <<3, 1>>
    /\ analysis[1].impact.delay_increase_pct = <<150, 1>>

\* The level the thresholds give for a delay increase num/den minutes (den > 0).
LevelByThreshold(num, den) ==
    IF num > 5 * den THEN "severe"
    ELSE IF num > 2 * den THEN "high"
    ELSE IF num > den THEN "moderate"
    ELSE IF num > 0 THEN "low"
    ELSE "no impact"

\* C11: the impact level is a function of delay_increase alone with strict thresholds
\* (> 5 severe, > 2 high, > 1 moderate, > 0 low, otherwise no impact; exactly 5 is high,
\* exactly 2 moderate, exactly 1 low), and it is 'unknown' exactly when no delay_increase
\* could be computed, that is when a half has no measurement with a delay.
C11_LevelByThresholds ==
    (Returned(analysis) /\ analysis[1].has_data) =>
        LET inc == analysis[1].impact.delay_increase
            level == analysis[1].impact.level
        IN  /\ inc = None <=> (WithDelay(FirstHalf) = {} \/ WithDelay(SecondHalf) = {})
            /\ level = "unknown" <=> inc = None
            /\ inc # None => level = LevelByThreshold(inc[1], inc[2])
            /\ inc = <<5, 1>> => level = "high"
            /\ inc = <<2, 1>> => level = "moderate"
            /\ inc = <<1, 1>> => level = "low"
            /\ inc = <<501, 100>> => level = "severe"
            /\ inc = <<0, 1>> => level = "no impact"
            /\ inc = <<-1, 1>> => level = "no impact"

\* A delay increase of exactly 5 minutes was classified 'high'.
C11_Witness ==
    /\ Returned(analysis)
    /\ analysis[1].has_data
    /\ analysis[1].impact.delay_increase = <<5, 1>>
    /\ analysis[1].impact.level = "high"

\* The events fetched so far that were found with at least one measurement.
FetchedWithData ==
    {j \in 1..(analyze_all.i - 1) :
        /\ analyze_all.fetched[j] # None
        /\ analyze_all.fetched[j][1].traffic_measurements # <<>>}

\* C12: analyze_event_impact returns the no-data result (has_data false, no impact level)
\* exactly when the event has no measurement, so a computed level, 'no impact' included,
\* always comes with has_data true; analyze_all_events keeps one analysis per event with
\* measurements and only analyses with has_data true.
C12_NoDataOnlyWithoutMeasurements ==
    /\ (analysis # None /\ Returned(analysis)) =>
          /\ ~analysis[1].has_data <=> impact_event.traffic_measurements = <<>>
          /\ ~analysis[1].has_data => "impact" \notin DOMAIN analysis[1]
          /\ analysis[1].has_data =>
                /\ "impact" \in DOMAIN analysis[1]
                /\ analysis[1].impact.level \in
                      {"severe", "high", "moderate", "low", "no impact", "unknown"}
    /\ (analyze_all.pc = "loop" \/ analyze_all.result # Raised) =>
          /\ \A j \in DOMAIN analyze_all.results : analyze_all.results[j].has_data
          /\ Len(analyze_all.results) = Cardinality(FetchedWithData)
    /\ (analyze_all.pc = "done" /\ analyze_all.result # Raised) =>
          analyze_all.result = Some(analyze_all.results)

\* The batch analysis returned: it met an event without measurements, which it left out,
\* and an event with equal delays, which it kept with the computed level 'no impact'.
C12_Witness ==
    /\ analyze_all.pc = "done"
    /\ analyze_all.result # Raised
    /\ Len(analyze_all.fetched) = 3
    /\ analyze_all.fetched[1] # None
    /\ analyze_all.fetched[1][1].traffic_measurements = <<>>
    /\ Len(analyze_all.results) = 2
    /\ analyze_all.results[2].impact.level = "no impact"

\* The input categories that contain 'sports', 'festival' or 'music' in any case.
MajorInputs ==
    { <<"S","p","o","r","t","s">>,
      <<"S","P","O","R","T","S">>,
      <<"e","S","p","o","r","t","s">>,
      <<"m","u","s","i","c">>,
      <<"F","i","l","m"," ","F","e","s","t","i","v","a","l">> }

C14_DelayDerivedFromTimes ==
    \A r \in BagToSet(traffic_measurements) :
        /\ r.delay_minutes = Round2(RNorm(r.travel_time_seconds - r.typical_time_seconds, 60))
        /\ (r.travel_time_seconds = 300 /\ r.typical_time_seconds = 240) =>
              r.delay_minutes = <<1, 1>>

\* C15: insert_traffic_measurement always adds exactly one new row and never changes or
\* replaces a stored row: in every step of the event traffic task, retried or not, every
\* stored row stays, and the table grows by one row per measurement the step stored, also
\* when an equal measurement for the venue and sample point is already stored.
C15_InsertOnlyNeverIdempotent ==
    [][/\ \A r \in BagToSet(traffic_measurements) :
             /\ r \in BagToSet(traffic_measurements')
             /\ traffic_measurements'[r] >= traffic_measurements[r]
       /\ (run.pc = "loop" /\ run'.pc = "loop") =>
             BagCardinality(traffic_measurements') =
                 BagCardinality(traffic_measurements)
                     + (run'.total_measurements - run.total_measurements)
       /\ run'.pc # "loop" => traffic_measurements' = traffic_measurements]_vars

\* A retried run stored the measurement of an event's North point again: the table holds
\* it twice.
C15_Witness ==
    /\ run.retries = 1
    /\ run.total_measurements > 0
    /\ \E r \in BagToSet(traffic_measurements) :
          /\ r.direction = "North"
          /\ traffic_measurements[r] = 2

\* The position of the first dict of events_list that has key k.
FirstWithKey(k) ==
    CHOOSE i \in DOMAIN events_list :
        /\ EventKey(events_list[i]) = k
        /\ \A j \in 1..(i - 1) : EventKey(events_list[j]) # k

\* C16: one insert_events call either raises and leaves the store as it was, or returns the
\* number of distinct keys of its batch (0 for the empty batch, which leaves the store as
\* it was), after which every key of the batch has exactly one row, holding the fields of
\* the key's first dict in the batch, and the rows of all other keys are as before.
C16_DedupFirstAllOrNothing ==
    [][/\ insert_ret' = Raised => (events' = events /\ events_list # <<>>)
       /\ insert_ret' # Raised =>
             /\ insert_ret' = <<Cardinality(KeysOf(events_list))>>
             /\ events_list = <<>> => (insert_ret' = <<0>> /\ events' = events)
             /\ \A k \in KeysOf(events_list) :
                   /\ events_list[FirstWithKey(k)] \in BagToSet(events')
                   /\ \A r \in BagToSet(events') :
                         EventKey(r) = k =>
                             (r = events_list[FirstWithKey(k)] /\ events'[r] = 1)
             /\ \A r \in BagToSet(events) \cup BagToSet(events') :
                   EventKey(r) \notin KeysOf(events_list) =>
                       /\ r \in BagToSet(events) /\ r \in BagToSet(events')
                       /\ events'[r] = events[r]]_vars

\* A batch of three dicts with two keys, the first and the last dict sharing a key with
\* different fields, returned 2, and the store holds the first dict and two rows in all.
C16_Witness ==
    /\ insert_ret = <<2>>
    /\ Len(events_list) = 3
    /\ EventKey(events_list[1]) = EventKey(events_list[3])
    /\ events_list[1].category = "Arts"
    /\ events_list[3].category = "Sports"
    /\ events_list[1] \in BagToSet(events)
    /\ BagCardinality(events) = 2

\* C17: every store operation opens its own connection and releases it before
\* it returns or raises: between operations no connection is open, and the only
\* connection open during an operation is the one that operation opened itself.
C17_ConnectionPerOperation ==
    /\ store_op = None => connections = {}
    /\ store_op # None =>
          /\ store_op.pc = "idle" => connections = {}
          /\ store_op.conn = None => connections = {}
          /\ store_op.conn # None =>
                /\ connections \subseteq {store_op.conn[1]}
                /\ store_op.conn[1] > store_op.base
                /\ store_op.opened = store_op.base + 1

\* The third operation in a row, one that rolls back, has raised after it had
\* connected; every operation so far opened a connection and none is open.
C17_Witness ==
    /\ store_op # None
    /\ store_op.pc = "idle"
    /\ store_op.calls = 3
    /\ store_op.opened = 3
    /\ store_op.exc
    /\ store_op.conn # None
    /\ rolls_back(store_op.name)
    /\ connections = {}

\* The response lacks the top-level key the client reads.
NoTopLevelKey ==
    /\ response.kind = "json"
    /\ \/ response.api = "routing" /\ response.data.routes = None
       \/ response.api = "flow" /\ response.data.flowSegmentData = None

\* What holds once the client has been called.
C18_AfterCall ==
    measurement # None =>
        /\ measurement[1] # Raised
        /\ requests = (IF TOMTOM_API_KEY THEN 1 ELSE 0)
        /\ (~TOMTOM_API_KEY \/ response.kind # "json" \/ NoTopLevelKey) =>
              measurement[1] = None
        /\ measurement[1] = None => outcomes \in {None, <<"none">>}

\* What one call of the client changes.
C18_Call ==
    (measurement = None /\ measurement' # None) =>
        /\ requests' <= requests + 1
        /\ traffic_measurements' = traffic_measurements
        /\ events' = events

\* C18: a call of the vendor client makes at most one HTTP request (none without
\* an API key), changes nothing in the store and never raises; without a key, on
\* a network error, a non-2xx status, malformed JSON or a body without the
\* expected top-level key it returns None, and the caller then skips the point.
C18_OneRequestNoRaise == [](C18_AfterCall) /\ [][C18_Call]_vars

\* A configured client got a body that is not JSON: one request was made, None
\* came back, and the collector skipped the sample point with nothing stored.
C18_Witness ==
    /\ TOMTOM_API_KEY
    /\ response.kind = "bad_json"
    /\ requests = 1
    /\ measurement = Some(None)
    /\ outcomes = <<"none">>
    /\ traffic_measurements = EmptyBag

\* The body has the expected top-level key but one of the fields read from the
\* route summary or the flow segment is missing.
FieldMissing ==
    /\ response.kind = "json"
    /\ \/ /\ response.api = "routing"
          /\ response.data.routes # None
          /\ Len(response.data.routes[1]) > 0
          /\ response.data.routes[1][1].summary # None
          /\ LET sm == response.data.routes[1][1].summary[1] IN
                \/ sm.lengthInMeters = None
                \/ sm.travelTimeInSeconds = None
                \/ sm.noTrafficTravelTimeInSeconds = None
       \/ /\ response.api = "flow"
          /\ response.data.flowSegmentData # None
          /\ LET flow == response.data.flowSegmentData[1] IN
                \/ flow.currentSpeed = None
                \/ flow.freeFlowSpeed = None
                \/ flow.currentTravelTime = None
                \/ flow.freeFlowTravelTime = None

\* C19: when the response lacks an expected field the client returns None, never
\* a measurement built from substituted defaults.
C19_MissingFieldNoMeasurement ==
    (measurement # None /\ FieldMissing) => measurement[1] = None

\* The level the thresholds give for a delay in minutes.
LevelByDelay(delay_minutes) ==
    IF RGreater(RNorm(1, 2), delay_minutes) THEN "light"
    ELSE IF RGreater(RInt(2), delay_minutes) THEN "moderate"
    ELSE IF RGreater(RInt(5), delay_minutes) THEN "heavy"
    ELSE "severe"

\* The measurements the client has returned.
ReturnedMeasurements ==
    IF measurement # None /\ measurement[1] # None THEN {measurement[1][1]} ELSE {}

\* C20 as stated: the delay of a returned measurement equals its current travel
\* time minus its free-flow travel time in minutes, and the level follows from
\* that delay by the thresholds 0.5, 2 and 5.
C20_DelayExact ==
    \A m \in ReturnedMeasurements :
        /\ m.delay_minutes = RNorm(m.travel_time_seconds - m.typical_time_seconds, 60)
        /\ m.traffic_level = LevelByDelay(m.delay_minutes)

\* current minus free-flow travel time of a measurement, in minutes
TimeDifference(m) == RNorm(m.travel_time_seconds - m.typical_time_seconds, 60)

\* C20: the delay of a returned measurement equals its current travel time minus
\* its free-flow travel time in minutes, rounded to two decimals, and the level
\* follows from the unrounded difference alone: below 0.5 light, below 2
\* moderate, below 5 heavy, otherwise severe.
C20_DelayRoundedLevelByDifference ==
    \A m \in ReturnedMeasurements :
        /\ m.delay_minutes = Round2(TimeDifference(m))
        /\ m.traffic_level = LevelByDelay(TimeDifference(m))
        /\ TimeDifference(m) = RNorm(1, 2) => m.traffic_level = "moderate"
        /\ TimeDifference(m) = RInt(2) => m.traffic_level = "heavy"
        /\ TimeDifference(m) = RInt(5) => m.traffic_level = "severe"
        /\ RGreater(RInt(0), TimeDifference(m)) => m.traffic_level = "light"

\* The routing client returned a measurement for 269 s against 240 s free flow:
\* 29/60 min is returned as 0.48 and the level is light.
C20_Witness ==
    /\ response.api = "routing"
    /\ measurement # None
    /\ measurement[1] # None
    /\ measurement[1][1].travel_time_seconds = 269
    /\ measurement[1][1].typical_time_seconds = 240
    /\ measurement[1][1].delay_minutes = RNorm(12, 25)
    /\ measurement[1][1].traffic_level = "light"

\* The delay increases of category cat in the input, None left out.
DelaysOfCategory(cat) ==
    LET of_cat == SelectSeq(analyses, LAMBDA a : a.category = cat /\ a.impact.delay_increase # None)
    IN  [j \in DOMAIN of_cat |-> of_cat[j].impact.delay_increase]

\* The input positions whose analysis has a delay increase.
WithDelayIncrease == {j \in DOMAIN analyses : analyses[j].impact.delay_increase # None}

\* C21: get_impact_summary never raises; the empty list gives {no_data: True};
\* otherwise every category of the input has an average, taken over its non-null
\* delay increases only (also when it has none), and the top list holds only
\* analyses that have a delay increase.
C21_SummaryNeverRaises ==
    impact_summary # None =>
        /\ impact_summary # Raised
        /\ analyses = <<>> => impact_summary = Some([no_data |-> TRUE])
        /\ analyses # <<>> =>
              LET s == impact_summary[1] IN
                 /\ s.total_events_analyzed = Len(analyses)
                 /\ DOMAIN s.category_avg_impact =
                       {analyses[j].category : j \in DOMAIN analyses}
                 /\ \A cat \in DOMAIN s.category_avg_impact :
                       DelaysOfCategory(cat) # <<>> =>
                          RMul(s.category_avg_impact[cat], RInt(Len(DelaysOfCategory(cat))))
                             = RSum(DelaysOfCategory(cat))
                 /\ \A j \in DOMAIN s.top_impact_events :
                       \E i \in WithDelayIncrease :
                          s.top_impact_events[j].event_name = analyses[i].event_name

\* Three analyses: the only one of category Arts has no delay increase, and the
\* two of Sports, one of them without a delay increase, average to the other's 3.
C21_Witness ==
    /\ impact_summary # None
    /\ Len(analyses) = 3
    /\ analyses[1].category = "Arts" /\ analyses[1].impact.delay_increase = None
    /\ analyses[2].category = "Sports" /\ analyses[2].impact.delay_increase = None
    /\ analyses[3].category = "Sports" /\ analyses[3].impact.delay_increase = RInt(3)
    /\ impact_summary[1].category_avg_impact["Sports"] = RInt(3)
    /\ Len(impact_summary[1].top_impact_events) = 1

\* C22: a category none of whose events has a delay increase is reported
\* differently from a category whose mean delay increase is exactly zero.
C22_NoDataNotZero ==
    (impact_summary # None /\ analyses # <<>>) =>
        \A cat \in DOMAIN impact_summary[1].category_avg_impact :
            DelaysOfCategory(cat) = <<>> =>
                impact_summary[1].category_avg_impact[cat] # RInt(0)

\* The input position of the j-th entry of the top list (event names are the
\* input positions).
TopPosition(j) == impact_summary[1].top_impact_events[j].event_name

\* C23: the top list holds at most 10 entries, all with a delay increase, in
\* descending order of delay increase with ties in input order; it holds every
\* analysis with a delay increase when there are at most 10 of them, and no
\* analysis left out has a larger delay increase than one that is in.
C23_TopTenStable ==
    (impact_summary # None /\ analyses # <<>>) =>
        LET top == impact_summary[1].top_impact_events
            included == {TopPosition(j) : j \in DOMAIN top}
        IN  /\ Len(top) = Min(TopN, Cardinality(WithDelayIncrease))
            /\ included \subseteq WithDelayIncrease
            /\ \A j \in DOMAIN top :
                  /\ top[j].delay_increase = analyses[TopPosition(j)].impact.delay_increase
                  /\ top[j].delay_increase # None
            /\ \A j, k \in DOMAIN top :
                  j < k =>
                     /\ ~RGreater(top[k].delay_increase, top[j].delay_increase)
                     /\ top[k].delay_increase = top[j].delay_increase =>
                           TopPosition(j) < TopPosition(k)
            /\ \A i \in WithDelayIncrease \ included :
                  \A j \in DOMAIN top :
                     ~RGreater(analyses[i].impact.delay_increase, top[j].delay_increase)

\* Fourteen analyses, eleven of them with a delay increase of 3 or 3.5: the
\* list holds ten, the 3.5 first, then the 3 in input order, and a 3 is left out.
C23_Witness ==
    /\ impact_summary # None
    /\ Len(analyses) = TopN + 4
    /\ Cardinality(WithDelayIncrease) > TopN
    /\ Len(impact_summary[1].top_impact_events) = TopN
    /\ impact_summary[1].top_impact_events[1].delay_increase = RNorm(7, 2)
    /\ impact_summary[1].top_impact_events[TopN].delay_increase = RInt(3)
    /\ \E i \in WithDelayIncrease :
          /\ analyses[i].impact.delay_increase = RInt(3)
          /\ \A j \in 1..TopN : TopPosition(j) # i

\* C24: the four groups are contiguous pieces of the venue list in list order
\* that together make up the list, the group a run works on is the one of its
\* group number, and the group sizes differ by at most one.
C24_EvenContiguousGroups ==
    baseline.pc \in {"loop", "done"} =>
        LET groups == split_venues_into_groups(venue_locations) IN
            /\ baseline.venues = groups[baseline.group_number]
            /\ groups[1] \o groups[2] \o groups[3] \o groups[4] = venue_locations
            /\ \A a, b \in 1..4 : Len(groups[a]) - Len(groups[b]) <= 1

\* C25: for every event with a start time the planner returns a plan, whatever
\* the category is, a category that is NULL in the store included.
C25_PlanForEveryCategory ==
    (plan # None /\ has_start_time(plan_event.event_start_time)) =>
        /\ plan # Raised
        /\ plan[1].collect

\* The event the scheduler looks at is a major one.
UpcomingMajor == is_major_event(upcoming[1].category)

WindowsOf == {w[1] : w \in windows_collected}

\* C26: with the scheduler invoked every hour, once a major event's after
\* window has passed it has been collected in a before window (30 to 90 minutes
\* before its start) and in an after window (30 to 90 minutes after it), and a
\* minor event in a before window only.
C26_BeforeAndAfterByPlan ==
    upcoming # None =>
        /\ \A w \in windows_collected :
              /\ w[1] = "before" => (30 <= w[2] /\ w[2] <= 90)
              /\ w[1] = "after" => (-90 <= w[2] /\ w[2] <= -30)
        /\ ~UpcomingMajor => "after" \notin WindowsOf
        /\ wall_clock > upcoming[1].event_start_time[1] + 90 =>
              /\ "before" \in WindowsOf
              /\ UpcomingMajor => "after" \in WindowsOf

\* The events the backfill may link measurement tm to: same venue, a start time
\* within 2 hours of the measurement, and no other such event nearer in time.
NearestEvents(tm) ==
    {e \in BackfillEvents :
        /\ e.venue_id = tm.venue_id
        /\ e.event_start_time # None
        /\ Abs(tm.measurement_time - e.event_start_time[1]) <= 120
        /\ \A o \in BackfillEvents :
              (o.venue_id = tm.venue_id /\ o.event_start_time # None) =>
                 Abs(tm.measurement_time - e.event_start_time[1])
                    <= Abs(tm.measurement_time - o.event_start_time[1])}

RowAfter(tm) ==
    {n \in BagToSet(traffic_measurements') : n.measurement_id = tm.measurement_id}

\* What one run of the backfill does to the table.
C27_Run ==
    (backfill # None /\ backfill'.runs = backfill.runs + 1) =>
        /\ events' = events
        /\ BagCardinality(traffic_measurements') = BagCardinality(traffic_measurements)
        /\ \A tm \in BagToSet(traffic_measurements) :
              /\ Cardinality(RowAfter(tm)) = 1
              /\ \A n \in RowAfter(tm) :
                    /\ [n EXCEPT !.event_id = tm.event_id] = tm
                    /\ (tm.event_id # None \/ tm.is_baseline) => n = tm
                    /\ (backfill'.response = None \/ backfill'.response \notin {Some("y"), Some("Y")})
                          => n = tm
                    /\ n # tm => \E e \in NearestEvents(tm) : n.event_id = Some(e.event_id)
                    /\ (backfill'.response \in {Some("y"), Some("Y")}
                        /\ tm.event_id = None /\ ~tm.is_baseline /\ NearestEvents(tm) # {})
                          => n # tm
        /\ (backfill.runs >= 1 /\ backfill.response \in {Some("y"), Some("Y")}) =>
              /\ traffic_measurements' = traffic_measurements
              /\ backfill'.matches = 0

\* C27: a run of the backfill changes only the event_id of measurements that have
\* none and are not baseline, to an event of the same venue whose start is nearest
\* in time within 2 hours; it leaves linked and baseline measurements and the
\* events alone, changes nothing unless the operator answers y, and a run right
\* after a confirmed one finds nothing to link.
C27_BackfillOnlyUnlinked == [][C27_Run]_vars

\* Two runs, the first confirmed: it linked one of two measurements, the other is
\* baseline and still has no event, and the second run found nothing to link.
C27_Witness ==
    /\ backfill # None
    /\ backfill.runs = 2
    /\ backfill.matches = 0
    /\ \E a, b \in BagToSet(traffic_measurements) :
          /\ a.measurement_id = 1 /\ a.event_id = Some(1) /\ a.measurement_time = 690
          /\ b.measurement_id = 2 /\ b.is_baseline /\ b.event_id = None
          /\ b.venue_id = 1 /\ b.measurement_time = 690

\* The invocations have gone past every collection point of every event.
AllPointsPassed ==
    \A n \in DOMAIN event_rows :
        now - event_datetime(event_rows[n]) > (120 + 15 + DeploymentInterval) * TicksPerMinute

CollectedTimes(n, point) == CopiesIn(<<event_rows[n].event_id, point>>, points_collected)

\* C28: with invocations exactly 30 minutes apart, and neither failure nor
\* ceiling, every event is collected exactly once for each of the nine
\* collection points, whatever the phase of the invocations: never twice, and
\* once the invocations are past all the points none is missing.
C28_EachPointOnce ==
    \A n \in DOMAIN event_rows :
        \A j \in DOMAIN collection_points :
            /\ CollectedTimes(n, collection_points[j]) <= 1
            /\ AllPointsPassed => CollectedTimes(n, collection_points[j]) = 1

\* The flow task reported the run as skipped because it was not collection time.
ReportedNotCollectionTime ==
    /\ baseline_task # None
    /\ baseline_task.result # None
    /\ "skipped" \in DOMAIN baseline_task.result[1]
    /\ baseline_task.result[1].reason = "Not collection time"

\* C29: collect_baseline_traffic reports a run as skipped with reason
\* 'Not collection time' only when should_collect_baseline_now was false; a
\* run that was due and failed with an error is not reported as such a skip.
C29_SkipOnlyWhenNotDue ==
    ReportedNotCollectionTime => ~baseline_check.collect

\* C30: analyze_event_impact returns an analysis and never raises for every
\* non-empty list of measurements: a single measurement (empty before half),
\* delays or speeds that are all null, a before half whose mean speed is 0.
C30_AnalysisNeverRaises ==
    (analysis # None /\ impact_event.traffic_measurements # <<>>) =>
        /\ analysis # Raised
        /\ analysis[1].has_data
====
